---- MODULE Spec2Model ----
(***************************************************************************)
(* A model of carapace: the issue tracker state the scheduler reads, the   *)
(* dependency graph (validator/validation.py build_graph), the active      *)
(* subgraph and priority (dag.py), the ready queue (scheduler.py), the     *)
(* worker pool with its credential pool (worker/pool.py), the claim        *)
(* resolver (queue.py run) and the validator (validator/validation.py      *)
(* validate_issues, validator/cli.py main).                                *)
(***************************************************************************)
EXTENDS Integers, Sequences, FiniteSets, TLC

VARIABLES
    issue_state,      \* tracker: issue number -> "open" | "closed"
    issue_labels,     \* tracker: issue number -> set of label names
    issue_deps,       \* tracker: issue number -> set of issue numbers it depends on
    graph,            \* the graph of the last fetch_dag (build_graph's result)
    active_nodes,     \* get_active_subgraph's result in the last call
    ready_queue,      \* the list returned by the last compute_ready_queue
    cq_status,        \* "none" | "returned" | "raised": how that call ended
    priority_scores,  \* the map returned by the last calculate_priority call
    now,              \* datetime.now(), in seconds
    keys,             \* APIKeyPool.keys: the labels, in the pool's order
    usage_counts,     \* APIKeyPool._usage_counts: label -> int
    rate_limit_reset, \* APIKey.rate_limit_reset per label, in seconds
    max_parallel,     \* WorkerPool.max_parallel
    issue_ids,        \* dispatch's argument issue_ids
    model_preference, \* dispatch's argument model_preference ("" is None)
    unit,             \* one record per submitted _run_single future
    results,          \* dispatch's list results
    disp_pc,          \* "idle" | "running" | "returned": where dispatch is
    cycle_pc,         \* where run_cycle is
    cycle_targets,    \* run_cycle's list targets
    cycle_idx,        \* the position of run_cycle's current loop
    reverted,         \* the issues run_cycle took the revert branch for
    label_errors,     \* the label writes that raised GiteaAPIError in the cycle
    calls,            \* the calls a sequential client made on the APIKeyPool
    pr_merged,        \* tracker: the pull requests that are merged (closed)
    merge_pc,         \* "idle" | "running" | "returned" | "raised": the auto-merge pass
    merge_list,       \* auto_merge_approved_prs's list prs
    merge_idx,        \* the position of its loop
    passes,           \* the auto-merge passes started so far
    seen,             \* per listed number, how the current pass left it
    merge_log,        \* the merge requests sent, in order
    issue_assignees,  \* tracker: issue number -> set of assignee logins
    issue_phase,      \* tracker: issue number -> _phase_of_issue (0 is None)
    pr_author,        \* tracker: pull request number -> user.login
    claim_out,        \* what the last `carapace queue` call left
    claimer,          \* per actor, where the actor's running `carapace queue` call is
    val_issues,       \* the issues file the validator reads
    val_config,       \* the validator's Config
    val_out           \* what the last validator run left

tracker_vars == <<issue_state, issue_labels, issue_deps>>
sched_vars == <<graph, active_nodes, ready_queue, cq_status, priority_scores>>
pool_vars == <<now, keys, usage_counts, rate_limit_reset, max_parallel>>
disp_vars == <<issue_ids, model_preference, unit, results, disp_pc>>

cycle_vars == <<cycle_pc, cycle_targets, cycle_idx, reverted, label_errors>>

key_vars == <<calls>>
merge_vars == <<pr_merged, merge_pc, merge_list, merge_idx, passes, seen, merge_log>>

claim_vars == <<issue_assignees, issue_phase, pr_author, claim_out, claimer>>
val_vars == <<val_issues, val_config, val_out>>

vars == <<tracker_vars, sched_vars, pool_vars, disp_vars, cycle_vars, key_vars,
          merge_vars, claim_vars, val_vars>>

(***************************************************************************)
(* Bounds of the model.                                                    *)
(***************************************************************************)
NumIssues == 4
MaxEdits == 2
MaxDepErrors == 1
MaxKeys == 2
MaxParallel == 2
MaxBatch == 3
MaxTicks == 1
MaxLabelErrors == 1
MaxCalls == 4
NumPRs == 2
MaxPasses == 2
TickSeconds == 30
NumPhases == 2
MaxValEdits == 2

Issues == 1..NumIssues

\* The label names the scheduler reads. The code compares them case-folded
\* (dag.py:24-25 upper(), scheduler.py:43,53 lower()); the model keeps the
\* folded names.
GraphLabels == {"tan", "molt", "needs-pr"}

(***************************************************************************)
(* The graph: validator/validation.py build_graph over fetched issues.     *)
(***************************************************************************)
EmptyGraph == [nodes |-> {}, labels |-> <<>>, synthetic |-> <<>>, edges |-> {}]

\* listing: the issue numbers fetched; deps: number -> declared dependencies.
\* A dependency outside the listing becomes a synthetic node without labels;
\* one edge dependency -> dependent per declared pair.
build_graph(listing, deps) ==
    LET nodes == listing \cup UNION {deps[i] : i \in listing}
    IN  [nodes     |-> nodes,
         labels    |-> [n \in nodes |-> IF n \in listing THEN issue_labels[n] ELSE {}],
         synthetic |-> [n \in nodes |-> n \notin listing],
         edges     |-> {e \in nodes \X nodes : e[2] \in listing /\ e[1] \in deps[e[2]]}]

\* GiteaClient.list_issues(state="open")
list_issues_open == {i \in Issues : issue_state[i] = "open"}

list_issues_all == Issues

fetch_dag_all_states(dep_errors) ==
    build_graph(list_issues_all,
                [i \in Issues |-> IF i \in dep_errors THEN {} ELSE issue_deps[i]])

\* Scheduler.fetch_dag: the open issues, each with the dependencies the
\* tracker reports; a failed dependency request (dep_errors) leaves [].
fetch_dag(dep_errors) ==
    build_graph(list_issues_open,
                [i \in Issues |-> IF i \in dep_errors THEN {} ELSE issue_deps[i]])

successors(g, n) == {m \in g.nodes : <<n, m>> \in g.edges}

predecessors(g, n) == {m \in g.nodes : <<m, n>> \in g.edges}

\* Breadth-first search as networkx does it: the start node is visited
\* first, every node reached after it is collected.
RECURSIVE bfs_forward(_, _, _)
bfs_forward(g, visited, frontier) ==
    IF frontier = {} THEN visited
    ELSE LET next == (UNION {successors(g, n) : n \in frontier}) \ visited
         IN  bfs_forward(g, visited \cup next, next)

RECURSIVE bfs_backward(_, _, _)
bfs_backward(g, visited, frontier) ==
    IF frontier = {} THEN visited
    ELSE LET next == (UNION {predecessors(g, n) : n \in frontier}) \ visited
         IN  bfs_backward(g, visited \cup next, next)

\* nx.descendants(graph, n): every node reachable from n, n itself excluded.
descendants(g, n) == bfs_forward(g, {n}, {n}) \ {n}

\* nx.ancestors(graph, n)
ancestors(g, n) == bfs_backward(g, {n}, {n}) \ {n}

(***************************************************************************)
(* dag.py                                                                  *)
(***************************************************************************)
get_active_subgraph_union(g) ==
    LET tan_nodes  == {n \in g.nodes : "tan" \in g.labels[n]}
        molt_nodes == {n \in g.nodes : "molt" \in g.labels[n]}
        reachable_from_tans == UNION {descendants(g, t) \cup {t} : t \in tan_nodes}
        can_reach_molts     == UNION {ancestors(g, m) \cup {m} : m \in molt_nodes}
    IN  IF tan_nodes = {} \/ molt_nodes = {} THEN {}
        ELSE reachable_from_tans \cup can_reach_molts

get_active_subgraph_fail_open(g) ==
    LET tan_nodes  == {n \in g.nodes : "tan" \in g.labels[n]}
        molt_nodes == {n \in g.nodes : "molt" \in g.labels[n]}
        reachable_from_tans == UNION {descendants(g, t) \cup {t} : t \in tan_nodes}
        can_reach_molts     == UNION {ancestors(g, m) \cup {m} : m \in molt_nodes}
    IN  IF tan_nodes = {} \/ molt_nodes = {} THEN g.nodes
        ELSE reachable_from_tans \cap can_reach_molts

get_active_subgraph_sink_side(g) ==
    LET tan_nodes  == {n \in g.nodes : "tan" \in g.labels[n]}
        molt_nodes == {n \in g.nodes : "molt" \in g.labels[n]}
        can_reach_molts == UNION {ancestors(g, m) \cup {m} : m \in molt_nodes}
    IN  IF tan_nodes = {} \/ molt_nodes = {} THEN {}
        ELSE can_reach_molts

get_active_subgraph(g) ==
    LET tan_nodes  == {n \in g.nodes : "tan" \in g.labels[n]}
        molt_nodes == {n \in g.nodes : "molt" \in g.labels[n]}
        reachable_from_tans == UNION {descendants(g, t) \cup {t} : t \in tan_nodes}
        can_reach_molts     == UNION {ancestors(g, m) \cup {m} : m \in molt_nodes}
    IN  IF tan_nodes = {} \/ molt_nodes = {} THEN {}
        ELSE reachable_from_tans \cap can_reach_molts

calculate_priority_children(g, ready_nodes) ==
    [n \in ready_nodes |->
        IF n \notin g.nodes THEN 0 ELSE Cardinality(successors(g, n))]

\* scores[node] = len(nx.descendants(graph, node)); 0 when absent.
calculate_priority(g, ready_nodes) ==
    [n \in ready_nodes |->
        IF n \notin g.nodes THEN 0 ELSE Cardinality(descendants(g, n))]

(***************************************************************************)
(* scheduler.py compute_ready_queue                                        *)
(***************************************************************************)
ready_nodes_unblocked(g) ==
    {n \in get_active_subgraph(g) : "needs-pr" \in g.labels[n]}

ready_nodes_tan_blocks(g) ==
    {n \in get_active_subgraph(g) :
        /\ "needs-pr" \in g.labels[n]
        /\ \A dep \in predecessors(g, n) : g.synthetic[dep]}

\* Lines 40-61: the active nodes that carry needs-pr and whose every
\* predecessor is synthetic or tan-labelled.
ready_nodes(g) ==
    {n \in get_active_subgraph(g) :
        /\ "needs-pr" \in g.labels[n]
        /\ \A dep \in predecessors(g, n) :
              g.synthetic[dep] \/ "tan" \in g.labels[dep]}

key_less_plain_number(scores, a, b) ==
    LET sa == IF a \in DOMAIN scores THEN scores[a] ELSE 0
        sb == IF b \in DOMAIN scores THEN scores[b] ELSE 0
    IN  sa < sb \/ (sa = sb /\ a < b)

\* The sort key (priority_scores.get(number, 0), -number) compared as
\* Python compares tuples.
key_less(scores, a, b) ==
    LET sa == IF a \in DOMAIN scores THEN scores[a] ELSE 0
        sb == IF b \in DOMAIN scores THEN scores[b] ELSE 0
    IN  sa < sb \/ (sa = sb /\ (0 - a) < (0 - b))

\* sorted(items, key=..., reverse=True): greatest key first.
RECURSIVE sorted_reverse(_, _)
sorted_reverse(S, scores) ==
    IF S = {} THEN <<>>
    ELSE LET top == CHOOSE x \in S : \A y \in S \ {x} : key_less(scores, y, x)
         IN  <<top>> \o sorted_reverse(S \ {top}, scores)

\* The ready queue computed from a fetched graph (lines 34-67).
ready_queue_of(g) ==
    LET ready == ready_nodes(g)
    IN  sorted_reverse(ready, calculate_priority(g, ready))

(***************************************************************************)
(* The tracker: what other actors do to the issues between scheduler       *)
(* calls. It starts as the fixture of                                      *)
(* test_compute_ready_queue_uses_topological_bounding (1: tan, 2: needs-pr *)
(* depending on 1, 3: molt depending on 2, 4: needs-pr, unrelated) and is  *)
(* explored up to MaxEdits facts away from it. Gitea refuses a dependency  *)
(* of an issue on itself and a direct mutual dependency; longer cycles are *)
(* not refused.                                                            *)
(***************************************************************************)
FixtureLabels ==
    [i \in Issues |-> CASE i = 1 -> {"tan"}
                        [] i = 2 -> {"needs-pr"}
                        [] i = 3 -> {"molt"}
                        [] i = 4 -> {"needs-pr"}
                        [] OTHER -> {}]

FixtureDeps ==
    [i \in Issues |-> CASE i = 2 -> {1}
                        [] i = 3 -> {2}
                        [] OTHER -> {}]

SymDiff(A, B) == (A \ B) \cup (B \ A)

\* How many facts of a tracker state differ from the fixture.
Edits(st, lb, dp) ==
    Cardinality({i \in Issues : st[i] = "closed"})
    + Cardinality({p \in Issues \X GraphLabels : p[2] \in SymDiff(lb[p[1]], FixtureLabels[p[1]])})
    + Cardinality({p \in Issues \X Issues : p[2] \in SymDiff(dp[p[1]], FixtureDeps[p[1]])})

Forget ==
    /\ graph' = EmptyGraph
    /\ active_nodes' = {}
    /\ ready_queue' = <<>>
    /\ cq_status' = "none"
    /\ priority_scores' = <<>>

CloseIssue(i) ==
    /\ issue_state[i] = "open"
    /\ issue_state' = [issue_state EXCEPT ![i] = "closed"]
    /\ Edits(issue_state', issue_labels, issue_deps) <= MaxEdits
    /\ UNCHANGED <<issue_labels, issue_deps>>
    /\ Forget

\* GiteaClient.add_label as the tracker serves it
AddLabel(i, l) ==
    /\ l \notin issue_labels[i]
    /\ issue_labels' = [issue_labels EXCEPT ![i] = @ \cup {l}]
    /\ Edits(issue_state, issue_labels', issue_deps) <= MaxEdits
    /\ UNCHANGED <<issue_state, issue_deps>>
    /\ Forget

\* GiteaClient.remove_label as the tracker serves it
RemoveLabel(i, l) ==
    /\ l \in issue_labels[i]
    /\ issue_labels' = [issue_labels EXCEPT ![i] = @ \ {l}]
    /\ Edits(issue_state, issue_labels', issue_deps) <= MaxEdits
    /\ UNCHANGED <<issue_state, issue_deps>>
    /\ Forget

\* GiteaClient.add_dependency: issue i now depends on d.
AddDependency(i, d) ==
    /\ i # d
    /\ d \notin issue_deps[i]
    /\ i \notin issue_deps[d]
    /\ issue_deps' = [issue_deps EXCEPT ![i] = @ \cup {d}]
    /\ Edits(issue_state, issue_labels, issue_deps') <= MaxEdits
    /\ UNCHANGED <<issue_state, issue_labels>>
    /\ Forget

\* GiteaClient.remove_dependency: issue i no longer depends on d.
RemoveDependency(i, d) ==
    /\ d \in issue_deps[i]
    /\ issue_deps' = [issue_deps EXCEPT ![i] = @ \ {d}]
    /\ Edits(issue_state, issue_labels, issue_deps') <= MaxEdits
    /\ UNCHANGED <<issue_state, issue_labels>>
    /\ Forget

\* Scheduler.compute_ready_queue, one call. api_error: which tracker request
\* of the call fails, if any ("list": the open-issue listing, "refetch": the
\* GET of a ready issue, both uncaught); dep_errors: the issues whose
\* dependency request fails (caught in fetch_dag).
ComputeReadyQueue(api_error, dep_errors) ==
    /\ cq_status = "none"
    /\ dep_errors \subseteq list_issues_open
    /\ Cardinality(dep_errors) <= MaxDepErrors
    /\ LET g == fetch_dag(dep_errors)
       IN  IF api_error = "list"
           THEN /\ dep_errors = {}
                /\ graph' = EmptyGraph
                /\ active_nodes' = {}
                /\ ready_queue' = <<>>
                /\ cq_status' = "raised"
           ELSE IF api_error = "refetch"
           THEN /\ ready_nodes(g) # {}
                /\ graph' = g
                /\ active_nodes' = get_active_subgraph(g)
                /\ ready_queue' = <<>>
                /\ cq_status' = "raised"
           ELSE /\ graph' = g
                /\ active_nodes' = get_active_subgraph(g)
                /\ ready_queue' = ready_queue_of(g)
                /\ cq_status' = "returned"
    /\ priority_scores' = <<>>
    /\ UNCHANGED <<issue_state, issue_labels, issue_deps>>

\* calculate_priority(graph, ready_nodes) called on the fetched graph with
\* every issue number as a candidate (queue.py passes candidate lists that
\* are not the scheduler's ready nodes).
CalculatePriority ==
    /\ cq_status = "returned"
    /\ priority_scores = <<>>
    /\ priority_scores' = calculate_priority(graph, Issues)
    /\ UNCHANGED <<issue_state, issue_labels, issue_deps, graph, active_nodes,
                   ready_queue, cq_status>>

(***************************************************************************)
(* worker/pool.py: APIKeyPool                                              *)
(***************************************************************************)
KeyLabels == 1..MaxKeys

\* The model each credential is bound to (test_apikey_pool.py: pro, flash, pro).
key_model(k) == IF k % 2 = 1 THEN "pro" ELSE "flash"

\* mark_rate_limited's default reset_after_seconds
DEFAULT_RESET_AFTER == 60

\* APIKey.is_available
is_available(k) == now >= rate_limit_reset[k]

\* get_next_available lines 37-42: the available keys, narrowed to the
\* preferred model when a preference is given and some available key has it.
candidates_ignoring_rate_limit(pref) ==
    LET available_keys == keys
        model_keys == {k \in available_keys : key_model(k) = pref}
    IN  IF pref # "" /\ model_keys # {} THEN model_keys ELSE available_keys

candidates_without_fallback(pref) ==
    LET available_keys == {k \in keys : is_available(k)}
        model_keys == {k \in available_keys : key_model(k) = pref}
    IN  IF pref # "" THEN model_keys ELSE available_keys

candidates(pref) ==
    LET available_keys == {k \in keys : is_available(k)}
        model_keys == {k \in available_keys : key_model(k) = pref}
    IN  IF pref # "" /\ model_keys # {} THEN model_keys ELSE available_keys

select_key_never_none(pref) ==
    LET c == IF candidates(pref) = {} THEN keys ELSE candidates(pref)
    IN  IF c = {} THEN 0
        ELSE CHOOSE k \in c :
                \A j \in c : \/ usage_counts[k] < usage_counts[j]
                             \/ (usage_counts[k] = usage_counts[j] /\ k <= j)

select_key_latest_tie(pref) ==
    LET c == candidates(pref)
    IN  IF c = {} THEN 0
        ELSE CHOOSE k \in c :
                \A j \in c : \/ usage_counts[k] < usage_counts[j]
                             \/ (usage_counts[k] = usage_counts[j] /\ k >= j)

select_key_first_candidate(pref) ==
    LET c == candidates(pref)
    IN  IF c = {} THEN 0 ELSE CHOOSE k \in c : \A j \in c : k <= j

\* get_next_available lines 44-49: None (0) without candidates, else the
\* first of the candidates stably sorted by usage count.
select_key(pref) ==
    LET c == candidates(pref)
    IN  IF c = {} THEN 0
        ELSE CHOOSE k \in c :
                \A j \in c : \/ usage_counts[k] < usage_counts[j]
                             \/ (usage_counts[k] = usage_counts[j] /\ k <= j)

(***************************************************************************)
(* worker/base.py WorkerResult.output and the rate-limit heuristic of      *)
(* _run_single. A text is a sequence of words.                             *)
(***************************************************************************)
lower(w) ==
    CASE w = "Rate"  -> "rate"
      [] w = "Limit" -> "limit"
      [] w = "HTTP"  -> "http"
      [] w = "Too"   -> "too"
      [] w = "Many"  -> "many"
      [] w = "Requests" -> "requests"
      [] OTHER -> w

contains(text, phrase) ==
    \E i \in 1..Len(text) :
        /\ i + Len(phrase) - 1 <= Len(text)
        /\ \A j \in 1..Len(phrase) : text[i + j - 1] = phrase[j]

lowered(text) == [i \in 1..Len(text) |-> lower(text[i])]

\* pool.py:84
is_rate_limit_failure(ok, output) ==
    ~ok /\ (contains(output, <<"429">>) \/ contains(lowered(output), <<"rate", "limit">>))

NO_KEYS_OUTPUT == <<"No", "API", "keys", "available", "for", "this", "model/tier">>

\* What worker_impl.run may do: return a WorkerResult or raise.
WorkerReturns ==
    { [ok |-> TRUE,  output |-> <<"done">>],
      [ok |-> FALSE, output |-> <<"error">>],
      [ok |-> FALSE, output |-> <<"HTTP", "429">>],
      [ok |-> FALSE, output |-> <<"Rate", "Limit", "exceeded">>] }

WorkerRaises == { <<"429", "Too", "Many", "Requests">> }

(***************************************************************************)
(* worker/pool.py: WorkerPool.dispatch and its _run_single threads         *)
(***************************************************************************)
Min(a, b) == IF a < b THEN a ELSE b

dispatch_limit_untruncated(ids) == Len(ids)

\* pool.py:92
dispatch_limit(ids) == Min(Len(ids), max_parallel)

NewUnit(iid) ==
    [issue_id |-> iid, pc |-> "submitted", key |-> 0, cnt |-> 0,
     ok |-> FALSE, output |-> <<>>, raised |-> FALSE]

\* dispatch lines 91-96: the targets are cut to the limit and one future per
\* target is submitted.
DispatchStart(ids, pref) ==
    /\ disp_pc = "idle"
    /\ issue_ids' = ids
    /\ model_preference' = pref
    /\ unit' = [u \in 1..dispatch_limit(ids) |-> NewUnit(ids[u])]
    /\ results' = <<>>
    /\ disp_pc' = "running"

UnitSelectRaisesWithoutKey(u) ==
    /\ disp_pc = "running"
    /\ unit[u].pc = "submitted"
    /\ LET k == select_key(model_preference)
       IN  unit' = [unit EXCEPT ![u] =
                IF k = 0
                THEN [@ EXCEPT !.pc = "done", !.raised = TRUE,
                               !.output = NO_KEYS_OUTPUT]
                ELSE [@ EXCEPT !.pc = "selected", !.key = k]]
    /\ UNCHANGED <<issue_ids, model_preference, results, disp_pc, pool_vars>>

\* _run_single line 68 into get_next_available lines 37-49: pick the key.
\* Without a key the unit ends with the "No API keys" result (lines 69-70).
UnitSelect(u) ==
    /\ disp_pc = "running"
    /\ unit[u].pc = "submitted"
    /\ LET k == select_key(model_preference)
       IN  unit' = [unit EXCEPT ![u] =
                IF k = 0
                THEN [@ EXCEPT !.pc = "done", !.ok = FALSE,
                               !.output = NO_KEYS_OUTPUT]
                ELSE [@ EXCEPT !.pc = "selected", !.key = k]]
    /\ UNCHANGED <<issue_ids, model_preference, results, disp_pc, pool_vars>>

\* get_next_available line 50, the read of self._usage_counts[key.label]
UnitLoad(u) ==
    /\ disp_pc = "running"
    /\ unit[u].pc = "selected"
    /\ unit' = [unit EXCEPT ![u] = [@ EXCEPT !.pc = "loaded",
                                             !.cnt = usage_counts[unit[u].key]]]
    /\ UNCHANGED <<issue_ids, model_preference, results, disp_pc, pool_vars>>

\* get_next_available line 50, the write of the incremented count; the key
\* is returned and worker_impl.run starts (lines 72-81).
UnitStore(u) ==
    /\ disp_pc = "running"
    /\ unit[u].pc = "loaded"
    /\ usage_counts' = [usage_counts EXCEPT ![unit[u].key] = unit[u].cnt + 1]
    /\ unit' = [unit EXCEPT ![u] = [@ EXCEPT !.pc = "working", !.cnt = 0]]
    /\ UNCHANGED <<issue_ids, model_preference, results, disp_pc,
                   now, keys, rate_limit_reset, max_parallel>>

\* worker_impl.run returns r; lines 83-87: a rate-limit failure marks the
\* unit's key (mark_rate_limited, lines 53-58) and the result is returned.
UnitWorkerReturns(u, r) ==
    /\ disp_pc = "running"
    /\ unit[u].pc = "working"
    /\ rate_limit_reset' =
          IF is_rate_limit_failure(r.ok, r.output)
          THEN [rate_limit_reset EXCEPT ![unit[u].key] = now + DEFAULT_RESET_AFTER]
          ELSE rate_limit_reset
    /\ unit' = [unit EXCEPT ![u] = [@ EXCEPT !.pc = "done", !.ok = r.ok,
                                             !.output = r.output]]
    /\ UNCHANGED <<issue_ids, model_preference, results, disp_pc,
                   now, keys, usage_counts, max_parallel>>

\* worker_impl.run raises: _run_single is left at line 81, the future holds
\* the exception.
UnitWorkerRaises(u, text) ==
    /\ disp_pc = "running"
    /\ unit[u].pc = "working"
    /\ unit' = [unit EXCEPT ![u] = [@ EXCEPT !.pc = "done", !.raised = TRUE,
                                             !.output = text]]
    /\ UNCHANGED <<issue_ids, model_preference, results, disp_pc, pool_vars>>

collected_dropping_exceptions(u) ==
    IF unit[u].raised THEN <<>>
    ELSE <<[ok |-> unit[u].ok, output |-> unit[u].output, unit |-> u]>>

\* dispatch lines 98-104: what the loop appends for a finished future, the
\* future's result or WorkerResult(ok=False, output=str(exc)). The field
\* unit remembers which future it came from; the code keeps no such field.
collected(u) ==
    IF unit[u].raised
    THEN <<[ok |-> FALSE, output |-> unit[u].output, unit |-> u]>>
    ELSE <<[ok |-> unit[u].ok, output |-> unit[u].output, unit |-> u]>>

\* dispatch line 97: as_completed yields a finished future, in no fixed order.
DispatchCollect(u) ==
    /\ disp_pc = "running"
    /\ unit[u].pc = "done"
    /\ results' = results \o collected(u)
    /\ unit' = [unit EXCEPT ![u] = [@ EXCEPT !.pc = "collected"]]
    /\ UNCHANGED <<issue_ids, model_preference, disp_pc, pool_vars>>

\* dispatch line 106
DispatchReturn ==
    /\ disp_pc = "running"
    /\ \A u \in DOMAIN unit : unit[u].pc = "collected"
    /\ disp_pc' = "returned"
    /\ UNCHANGED <<issue_ids, model_preference, unit, results, pool_vars>>

\* Time passes.
Tick ==
    /\ now < MaxTicks * TickSeconds
    /\ now' = now + TickSeconds
    /\ UNCHANGED <<keys, usage_counts, rate_limit_reset, max_parallel>>

\* The issue-id lists dispatch is called with: the first n of 2, 1, 3, 4, ...
BatchOf(n) == [k \in 1..n |-> IF k = 1 THEN 2 ELSE IF k = 2 THEN 1 ELSE k]

DispatchInputs == {BatchOf(n) : n \in 0..MaxBatch}

ModelPreferences == {"", "flash"}

(***************************************************************************)
(* scheduler.py: Scheduler.run_cycle from the ready-queue computation on   *)
(* (lines 113-151).                                                        *)
(***************************************************************************)
\* The label ids run_cycle writes.
LABEL_NEEDS_PR == 5
LABEL_IN_PROGRESS == 7

label_name(id) == IF id = LABEL_NEEDS_PR THEN "needs-pr" ELSE "in-progress"

\* One try block of two label writes, add_label(iid, a) then
\* remove_label(iid, r). outcome: "ok", or which request raises
\* GiteaAPIError; the second is not sent when the first raises.
labels_after_writes(iid, a, r, outcome) ==
    [issue_labels EXCEPT ![iid] =
        CASE outcome = "ok"           -> (@ \cup {label_name(a)}) \ {label_name(r)}
          [] outcome = "remove_fails" -> @ \cup {label_name(a)}
          [] OTHER                    -> @]

WriteOutcomes == {"ok", "add_fails", "remove_fails"}

\* The model bounds the label writes that fail in one cycle.
LabelErrorsLeft(outcome) == outcome = "ok" \/ label_errors < MaxLabelErrors

label_errors_after(outcome) == IF outcome = "ok" THEN label_errors ELSE label_errors + 1

\* Lines 113-122: compute the ready queue; an empty queue ends the cycle,
\* an uncaught tracker error ends it with the exception.
CycleCompute(api_error, dep_errors) ==
    /\ cycle_pc = "start"
    /\ ComputeReadyQueue(api_error, dep_errors)
    /\ cycle_pc' = IF cq_status' = "raised" THEN "crashed"
                   ELSE IF ready_queue' = <<>> THEN "done"
                   ELSE "marking"
    /\ cycle_targets' = SubSeq(ready_queue', 1, Min(Len(ready_queue'), max_parallel))
    /\ cycle_idx' = 1
    /\ UNCHANGED <<reverted, label_errors, pool_vars, disp_vars>>

CycleMarkRaises(outcome) ==
    /\ cycle_pc = "marking"
    /\ cycle_idx <= Len(cycle_targets)
    /\ LabelErrorsLeft(outcome)
    /\ issue_labels' = labels_after_writes(cycle_targets[cycle_idx],
                                           LABEL_IN_PROGRESS, LABEL_NEEDS_PR, outcome)
    /\ cycle_idx' = cycle_idx + 1
    /\ label_errors' = label_errors_after(outcome)
    /\ cycle_pc' = IF outcome = "ok" THEN cycle_pc ELSE "crashed"
    /\ UNCHANGED <<issue_state, issue_deps, sched_vars, pool_vars, disp_vars,
                   cycle_targets, reverted>>

\* Lines 125-131, one iteration: mark the target in-progress.
CycleMark(outcome) ==
    /\ cycle_pc = "marking"
    /\ cycle_idx <= Len(cycle_targets)
    /\ LabelErrorsLeft(outcome)
    /\ issue_labels' = labels_after_writes(cycle_targets[cycle_idx],
                                           LABEL_IN_PROGRESS, LABEL_NEEDS_PR, outcome)
    /\ cycle_idx' = cycle_idx + 1
    /\ label_errors' = label_errors_after(outcome)
    /\ UNCHANGED <<issue_state, issue_deps, sched_vars, pool_vars, disp_vars,
                   cycle_pc, cycle_targets, reverted>>

CycleDispatchBeforeMarks ==
    /\ cycle_pc = "marking"
    /\ DispatchStart(cycle_targets, "")
    /\ cycle_pc' = "dispatching"
    /\ UNCHANGED <<tracker_vars, sched_vars, pool_vars, cycle_targets, cycle_idx,
                   reverted, label_errors>>

\* Line 134: the call of pool.dispatch(targets).
CycleDispatch ==
    /\ cycle_pc = "marking"
    /\ cycle_idx > Len(cycle_targets)
    /\ DispatchStart(cycle_targets, "")
    /\ cycle_pc' = "dispatching"
    /\ UNCHANGED <<tracker_vars, sched_vars, pool_vars, cycle_targets, cycle_idx,
                   reverted, label_errors>>

\* Line 134: dispatch returns its results to run_cycle.
CycleDispatchReturn ==
    /\ cycle_pc = "dispatching"
    /\ DispatchReturn
    /\ cycle_pc' = "reverting"
    /\ cycle_idx' = 1
    /\ UNCHANGED <<tracker_vars, sched_vars, cycle_targets, reverted, label_errors>>

\* Line 136: zip(targets, results) pairs the issue at a position with the
\* result at that position.
zipped(i) == [issue_id |-> cycle_targets[i], result |-> results[i]]

\* Lines 136-151, one iteration: a result that is not ok takes the revert
\* branch for the issue it is paired with.
CycleRevert(outcome) ==
    /\ cycle_pc = "reverting"
    /\ cycle_idx <= Min(Len(cycle_targets), Len(results))
    /\ LET z == zipped(cycle_idx)
       IN  IF z.result.ok
           THEN /\ outcome = "ok"
                /\ UNCHANGED <<issue_labels, reverted, label_errors>>
           ELSE /\ LabelErrorsLeft(outcome)
                /\ issue_labels' = labels_after_writes(z.issue_id, LABEL_NEEDS_PR,
                                                       LABEL_IN_PROGRESS, outcome)
                /\ reverted' = reverted \cup {z.issue_id}
                /\ label_errors' = label_errors_after(outcome)
    /\ cycle_idx' = cycle_idx + 1
    /\ UNCHANGED <<issue_state, issue_deps, sched_vars, pool_vars, disp_vars,
                   cycle_pc, cycle_targets>>

\* The end of run_cycle.
CycleEnd ==
    /\ cycle_pc = "reverting"
    /\ cycle_idx > Min(Len(cycle_targets), Len(results))
    /\ cycle_pc' = "done"
    /\ UNCHANGED <<tracker_vars, sched_vars, pool_vars, disp_vars,
                   cycle_targets, cycle_idx, reverted, label_errors>>

(***************************************************************************)
(* worker/pool.py: APIKeyPool called by one sequential client, as the      *)
(* tests of test_apikey_pool.py call it.                                   *)
(***************************************************************************)
\* The reset_after_seconds the tests pass (test_apikey_pool.py:32).
TEST_RESET_AFTER == 10

ResetAfterSeconds == {TEST_RESET_AFTER, DEFAULT_RESET_AFTER}

\* get_next_available(model_preference), lines 35-51, as one call.
GetNextAvailable(pref) ==
    /\ Len(calls) < MaxCalls
    /\ LET key == select_key(pref)
       IN  /\ usage_counts' = IF key = 0 THEN usage_counts
                              ELSE [usage_counts EXCEPT ![key] = @ + 1]
           /\ calls' = Append(calls, [op |-> "get", pref |-> pref, label |-> key,
                                      secs |-> 0, at |-> now])
    /\ UNCHANGED <<now, keys, rate_limit_reset, max_parallel>>

MarkRateLimitedAll(label, reset_after_seconds) ==
    /\ Len(calls) < MaxCalls
    /\ rate_limit_reset' =
          IF label \in keys
          THEN [k \in KeyLabels |-> IF k \in keys THEN now + reset_after_seconds
                                                 ELSE rate_limit_reset[k]]
          ELSE rate_limit_reset
    /\ calls' = Append(calls, [op |-> "mark", pref |-> "", label |-> label,
                               secs |-> reset_after_seconds, at |-> now])
    /\ UNCHANGED <<now, keys, usage_counts, max_parallel>>

\* mark_rate_limited(label, reset_after_seconds), lines 53-58; a label the
\* pool does not hold changes nothing.
MarkRateLimited(label, reset_after_seconds) ==
    /\ Len(calls) < MaxCalls
    /\ rate_limit_reset' =
          IF label \in keys
          THEN [rate_limit_reset EXCEPT ![label] = now + reset_after_seconds]
          ELSE rate_limit_reset
    /\ calls' = Append(calls, [op |-> "mark", pref |-> "", label |-> label,
                               secs |-> reset_after_seconds, at |-> now])
    /\ UNCHANGED <<now, keys, usage_counts, max_parallel>>

(***************************************************************************)
(* scheduler.py: Scheduler.auto_merge_approved_prs (lines 69-107) and the  *)
(* start of run_cycle (lines 109-113).                                     *)
(***************************************************************************)
\* The pull requests of the tracker are numbered after the issues.
PullRequests == (NumIssues + 1)..(NumIssues + NumPRs)

\* What the tracker may answer to the requests of one iteration: per
\* request the HTTP status (OK, or an error status raised as GiteaAPIError)
\* and the fields the code reads from an OK answer.
ErrorCodes == {404, 500}

StatusCodes == {200} \cup ErrorCodes

\* gt.py:41-52: _request raises GiteaAPIError for an HTTP error status.
raises(code) == code \in ErrorCodes

Answers ==
    [reviews_code : StatusCodes,
     reviews      : SUBSET {"APPROVED", "REQUEST_CHANGES"},
     details_code : StatusCodes,
     head_sha     : BOOLEAN,
     status_code  : StatusCodes,
     status       : {"success", "failure", "pending", "none"},
     merge_code   : StatusCodes]

RECURSIVE ascending(_)
ascending(S) ==
    IF S = {} THEN <<>>
    ELSE LET m == CHOOSE x \in S : \A y \in S : x <= y
         IN  <<m>> \o ascending(S \ {m})

list_prs_all_states == ascending(list_issues_open \cup PullRequests)

\* Line 74: list_issues(state="open") answers the open issues and the open
\* pull requests; a merged pull request is closed.
list_prs == ascending(list_issues_open \cup (PullRequests \ pr_merged))

should_merge_ignoring_ci(reviews, status) ==
    "APPROVED" \in reviews /\ "REQUEST_CHANGES" \notin reviews

\* Lines 83-86 and 96: the gate on the reviews and on the CI state.
should_merge(reviews, status) ==
    /\ "APPROVED" \in reviews
    /\ "REQUEST_CHANGES" \notin reviews
    /\ status = "success"

after_error_fatal(code) == IF code = 404 THEN "error" ELSE "raise"

\* Lines 103-107: a GiteaAPIError of any status ends the iteration.
after_error(code) == "error"

\* Lines 76-107 for one listed number under the answers a: how the
\* iteration ends ("gated", "error", "raise" or "requested") and whether a
\* merge request was sent.
handle_pr(n, a) ==
    IF n \notin PullRequests
    THEN [end |-> "gated", sent |-> FALSE, merged |-> FALSE]
    ELSE IF raises(a.reviews_code)
    THEN [end |-> after_error(a.reviews_code), sent |-> FALSE, merged |-> FALSE]
    ELSE IF ~should_merge(a.reviews, "success")
    THEN [end |-> "gated", sent |-> FALSE, merged |-> FALSE]
    ELSE IF raises(a.details_code)
    THEN [end |-> after_error(a.details_code), sent |-> FALSE, merged |-> FALSE]
    ELSE IF ~a.head_sha
    THEN [end |-> "gated", sent |-> FALSE, merged |-> FALSE]
    ELSE IF raises(a.status_code)
    THEN [end |-> after_error(a.status_code), sent |-> FALSE, merged |-> FALSE]
    ELSE IF ~should_merge(a.reviews, a.status)
    THEN [end |-> "gated", sent |-> FALSE, merged |-> FALSE]
    ELSE IF raises(a.merge_code)
    THEN [end |-> after_error(a.merge_code), sent |-> TRUE, merged |-> FALSE]
    ELSE [end |-> "requested", sent |-> TRUE, merged |-> TRUE]

\* run_cycle line 111 into line 74: the pass starts with the listing; the
\* listing request is outside the try and its error leaves run_cycle.
MergeStart(list_error) ==
    /\ cycle_pc = "merging"
    /\ merge_pc \in {"idle", "returned"}
    /\ passes < MaxPasses
    /\ passes' = passes + 1
    /\ seen' = [n \in Issues \cup PullRequests |-> "unseen"]
    /\ merge_idx' = 1
    /\ IF list_error
       THEN /\ merge_pc' = "raised"
            /\ cycle_pc' = "crashed"
            /\ merge_list' = <<>>
       ELSE /\ merge_pc' = "running"
            /\ cycle_pc' = cycle_pc
            /\ merge_list' = list_prs
    /\ UNCHANGED <<pr_merged, merge_log>>

\* Lines 75-107, one iteration of the loop.
MergePR(a) ==
    /\ merge_pc = "running"
    /\ merge_idx <= Len(merge_list)
    /\ LET n == merge_list[merge_idx]
           h == handle_pr(n, a)
       IN  /\ seen' = [seen EXCEPT ![n] = h.end]
           /\ merge_log' = IF h.sent
                           THEN Append(merge_log,
                                       [pr |-> n, pass |-> passes,
                                        reviews |-> a.reviews, status |-> a.status,
                                        was_merged |-> n \in pr_merged])
                           ELSE merge_log
           /\ pr_merged' = IF h.merged THEN pr_merged \cup {n} ELSE pr_merged
           /\ IF h.end = "raise"
              THEN merge_pc' = "raised" /\ cycle_pc' = "crashed"
              ELSE merge_pc' = merge_pc /\ cycle_pc' = cycle_pc
    /\ merge_idx' = merge_idx + 1
    /\ UNCHANGED <<merge_list, passes>>

\* The loop is over: auto_merge_approved_prs returns and run_cycle goes on
\* to line 113.
MergeReturn ==
    /\ merge_pc = "running"
    /\ merge_idx > Len(merge_list)
    /\ merge_pc' = "returned"
    /\ cycle_pc' = "start"
    /\ UNCHANGED <<pr_merged, merge_list, merge_idx, passes, seen, merge_log>>

\* The next run_cycle call, after a cycle whose ready-queue computation is
\* over. What the cycle does after it touches no pull request.
NextRunCycle ==
    /\ cycle_pc \in {"marking", "done"}
    /\ passes < MaxPasses
    /\ cycle_pc' = "merging"
    /\ cycle_targets' = <<>>
    /\ UNCHANGED <<pr_merged, merge_pc, merge_list, merge_idx, passes, seen, merge_log>>

(***************************************************************************)
(* queue.py: the claim resolver (`carapace queue`), one call of run.       *)
(***************************************************************************)
Actors == {"alice", "bob"}

Phases == 1..NumPhases

\* user.login of each pull request of the tracker.
PrAuthors == [n \in PullRequests |-> IF n % 2 = 1 THEN "alice" ELSE "bob"]

\* Lines 44-52: the tracker titles milestone m "Phase m", so the phase read
\* from the title and the fallback int(args.milestone) are the same number.
phase_number(milestone) == milestone

\* client._request("GET", "pulls?state=open")
open_pulls == PullRequests \ pr_merged

my_prs_none(assignee) == {}

\* Line 57: the open pull requests whose user.login is the actor.
my_prs(assignee) == {n \in open_pulls : pr_author[n] = assignee}

\* Lines 75-76: fetch_all_issues lists the issues of every state
\* (validator/cli.py:125 state=all&type=issues); the phase keeps those whose
\* _phase_of_issue is the phase number.
phase_issues(phase) == {i \in list_issues_all : issue_phase[i] = phase}

\* Lines 78-85: the dependencies of each phase issue (a failed request
\* leaves []), then build_graph over the phase issues.
queue_graph(phase, dep_errors) ==
    build_graph(phase_issues(phase),
                [i \in Issues |-> IF i \in dep_errors THEN {} ELSE issue_deps[i]])

in_progress_none(phase) == {}

\* Line 88
in_progress(phase) == {i \in phase_issues(phase) : "in-progress" \in issue_labels[i]}

\* Lines 89-91
my_in_progress(phase, assignee) ==
    IF assignee = "" THEN {}
    ELSE {i \in in_progress(phase) : assignee \in issue_assignees[i]}

\* _calculate_priority (lines 18-26)
queue_calculate_priority(g, nodes) ==
    [n \in nodes |-> IF n \notin g.nodes THEN 0 ELSE Cardinality(descendants(g, n))]

\* Lines 94-96: my_in_progress sorted by (score, -number), reverse.
sorted_in_progress(phase, assignee, dep_errors) ==
    LET mine == my_in_progress(phase, assignee)
    IN  sorted_reverse(mine, queue_calculate_priority(queue_graph(phase, dep_errors), mine))

ready_sorted_unfiltered(phase, assignee, dep_errors) ==
    LET raw   == ready_queue_of(fetch_dag(dep_errors))
        ready == {raw[k] : k \in DOMAIN raw} \cap phase_issues(phase)
    IN  sorted_reverse(ready,
                       queue_calculate_priority(queue_graph(phase, dep_errors), ready))

\* Lines 114-137: the scheduler's ready queue, restricted to the phase
\* issues and, with an actor, to the issues assigned to the actor, then
\* sorted by (score in the phase graph, -number), reverse.
ready_sorted(phase, assignee, dep_errors) ==
    LET raw      == ready_queue_of(fetch_dag(dep_errors))
        ready    == {raw[k] : k \in DOMAIN raw} \cap phase_issues(phase)
        filtered == IF assignee # ""
                    THEN {n \in ready : assignee \in issue_assignees[n]}
                    ELSE ready
    IN  sorted_reverse(filtered,
                       queue_calculate_priority(queue_graph(phase, dep_errors), filtered))

\* What one call leaves: its arguments, how the tracker answered (outcome,
\* dep_errors), the exit code, the envelope's ok, the tier that answered (0: none), the kind of
\* result, the claimed number, the listed numbers, whether
\* compute_ready_queue was called, and the label requests sent.
NoClaim ==
    [state |-> "none", claim |-> FALSE, assignee |-> "", milestone |-> 0,
     outcome |-> "ok", dep_errors |-> {}, exit |-> 0, ok |-> FALSE, tier |-> 0,
     kind |-> "none",
     number |-> 0, listing |-> <<>>, consulted |-> FALSE, writes |-> <<>>]

\* No actor has a call running.
NoClaimers == [a \in Actors |-> [pc |-> "idle", out |-> NoClaim, pending |-> <<>>]]

\* Lines 173-177 and 34-36: ok=False, return 1.
error_response(tier, consulted) ==
    [NoClaim EXCEPT !.exit = 1, !.ok = FALSE, !.tier = tier, !.kind = "error",
                    !.consulted = consulted]

empty_response_as_error == error_response(3, TRUE)

\* Lines 125-133: ok=True, result {"status": "empty"}, return 0.
empty_response ==
    [NoClaim EXCEPT !.exit = 0, !.ok = TRUE, !.tier = 0, !.kind = "empty",
                    !.consulted = TRUE]

\* The label requests of lines 142-146 that are sent under an outcome.
label_writes(iid, outcome) ==
    IF outcome = "add_fails"
    THEN <<[op |-> "add", issue |-> iid, label |-> LABEL_IN_PROGRESS]>>
    ELSE <<[op |-> "add", issue |-> iid, label |-> LABEL_IN_PROGRESS],
           [op |-> "remove", issue |-> iid, label |-> LABEL_NEEDS_PR]>>

QueueOutcomes ==
    {"ok", "no_token", "pulls_error", "issues_error", "ready_error",
     "add_fails", "remove_fails"}

\* run(args), lines 28-177. outcome: "ok", or the one thing that goes wrong
\* (no token; the request for the open pulls, for all issues or of
\* compute_ready_queue fails; a label write fails). dep_errors: the issues
\* whose dependency request fails, in both fetches. pr: the pull request
\* the tracker lists first among the actor's, 0 when there is none.
queue_run(claim, assignee, milestone, outcome, dep_errors, pr) ==
    LET phase  == phase_number(milestone)
        tier1  == claim /\ assignee # ""
        mine   == my_in_progress(phase, assignee)
        ready  == ready_sorted(phase, assignee, dep_errors)
        same   == issue_labels
    IN  IF outcome = "no_token"
        THEN [out |-> error_response(0, FALSE), labels |-> same]
        ELSE IF tier1 /\ outcome = "pulls_error"
        THEN [out |-> error_response(1, FALSE), labels |-> same]
        ELSE IF tier1 /\ my_prs(assignee) # {}
        THEN [out |-> [NoClaim EXCEPT !.exit = 0, !.ok = TRUE, !.tier = 1,
                                      !.kind = "pull_request", !.number = pr],
              labels |-> same]
        ELSE IF outcome = "issues_error"
        THEN [out |-> error_response(2, FALSE), labels |-> same]
        ELSE IF claim /\ mine # {}
        THEN [out |-> [NoClaim EXCEPT !.exit = 0, !.ok = TRUE, !.tier = 2,
                           !.kind = "issue",
                           !.number = Head(sorted_in_progress(phase, assignee, dep_errors))],
              labels |-> same]
        ELSE IF outcome = "ready_error"
        THEN [out |-> error_response(3, TRUE), labels |-> same]
        ELSE IF ready = <<>>
        THEN [out |-> empty_response, labels |-> same]
        ELSE IF claim
        THEN [out |-> [NoClaim EXCEPT !.exit = 0, !.ok = TRUE, !.tier = 3,
                           !.kind = "issue", !.number = Head(ready),
                           !.consulted = TRUE,
                           !.writes = label_writes(Head(ready), outcome)],
              labels |-> labels_after_writes(Head(ready), LABEL_IN_PROGRESS,
                                             LABEL_NEEDS_PR, outcome)]
        ELSE [out |-> [NoClaim EXCEPT !.exit = 0, !.ok = TRUE, !.tier = 3,
                           !.kind = "ready_issues", !.listing = ready,
                           !.consulted = TRUE],
              labels |-> same]

\* The tracker answers a call can get: a request that is not sent cannot
\* fail.
asked(claim, assignee, milestone, outcome) ==
    LET phase  == phase_number(milestone)
        tier1  == claim /\ assignee # ""
        hit1   == tier1 /\ my_prs(assignee) # {}
        hit2   == claim /\ my_in_progress(phase, assignee) # {}
    IN  /\ outcome = "pulls_error" => tier1
        /\ outcome = "issues_error" => ~hit1
        /\ outcome = "ready_error" => ~hit1 /\ ~hit2
        /\ outcome \in {"add_fails", "remove_fails"} => ~hit1 /\ ~hit2 /\ claim

\* The pull requests the tracker may list first among the actor's.
first_prs(claim, assignee, outcome) ==
    IF claim /\ assignee # "" /\ my_prs(assignee) # {}
       /\ outcome \notin {"no_token", "pulls_error"}
    THEN my_prs(assignee) ELSE {0}

\* The sets of issues whose dependency request may fail in a call. A failed
\* request leaves [], which is what an issue without dependencies has
\* anyway, so only the issues with dependencies are told apart.
failing_dependencies(claim, assignee, outcome) ==
    IF outcome \in {"no_token", "pulls_error", "issues_error"}
       \/ (claim /\ assignee # "" /\ my_prs(assignee) # {})
    THEN {{}}
    ELSE {de \in SUBSET {i \in list_issues_all : issue_deps[i] # {}} :
             Cardinality(de) <= MaxDepErrors}

QueueCall(claim, assignee, milestone, outcome) ==
    /\ asked(claim, assignee, milestone, outcome)
    /\ \E pr \in first_prs(claim, assignee, outcome),
          dep_errors \in failing_dependencies(claim, assignee, outcome) :
          LET r == queue_run(claim, assignee, milestone, outcome, dep_errors, pr)
          IN  /\ outcome \in {"add_fails", "remove_fails"} => r.out.writes # <<>>
              /\ claim_out' = [r.out EXCEPT !.state = "returned", !.claim = claim,
                                            !.assignee = assignee,
                                            !.milestone = milestone,
                                            !.outcome = outcome,
                                            !.dep_errors = dep_errors]
              /\ issue_labels' = r.labels
    /\ UNCHANGED <<issue_state, issue_deps, issue_assignees, issue_phase, pr_author,
                   claimer>>

\* The one call of a tracker on which no call was made before.
QueueRun(claim, assignee, milestone, outcome) ==
    /\ claim_out.state = "none"
    /\ QueueCall(claim, assignee, milestone, outcome)

\* Lines 28-137 of a `carapace queue --claim --assignee a` call that runs
\* while other actors' calls run: everything the call reads from the
\* tracker, up to the choice of ready[0]. The label requests it will send
\* are pending; a call that answers from tier 1 or 2, with an error or with
\* an empty queue has returned.
ClaimRead(a, milestone) ==
    /\ claimer[a].pc = "idle"
    /\ \E pr \in first_prs(TRUE, a, "ok"),
          dep_errors \in failing_dependencies(TRUE, a, "ok") :
          LET r == queue_run(TRUE, a, milestone, "ok", dep_errors, pr)
          IN  claimer' = [claimer EXCEPT ![a] =
                  [pc      |-> IF r.out.writes = <<>> THEN "returned" ELSE "chosen",
                   out     |-> [r.out EXCEPT !.state = "returned", !.claim = TRUE,
                                             !.assignee = a, !.milestone = milestone,
                                             !.dep_errors = dep_errors],
                   pending |-> r.out.writes]]
    /\ UNCHANGED <<tracker_vars, issue_assignees, issue_phase, pr_author, claim_out>>

\* Lines 142-146, one request: add_label(iid, 7), then remove_label(iid, 5);
\* a request that raises ends the try block. After the last one the call
\* prints its response (lines 148-157).
ClaimWrite(a, raised) ==
    /\ claimer[a].pc = "chosen"
    /\ LET w == Head(claimer[a].pending)
       IN  /\ issue_labels' =
                 IF raised THEN issue_labels
                 ELSE [issue_labels EXCEPT ![w.issue] =
                          IF w.op = "add" THEN @ \cup {label_name(w.label)}
                          ELSE @ \ {label_name(w.label)}]
           /\ claimer' = [claimer EXCEPT ![a] =
                 IF raised
                 THEN [@ EXCEPT !.pc = "returned", !.pending = <<>>,
                                !.out.outcome = IF w.op = "add" THEN "add_fails"
                                                ELSE "remove_fails"]
                 ELSE IF Len(@.pending) = 1
                 THEN [@ EXCEPT !.pc = "returned", !.pending = <<>>]
                 ELSE [@ EXCEPT !.pending = Tail(@)]]
    /\ UNCHANGED <<issue_state, issue_deps, issue_assignees, issue_phase, pr_author,
                   claim_out>>

ClaimInit ==
    /\ issue_assignees = [i \in Issues |-> {}]
    /\ issue_phase = [i \in Issues |-> 1]
    /\ pr_author = PrAuthors
    /\ claim_out = NoClaim
    /\ claimer = NoClaimers

(***************************************************************************)
(* validator/validation.py and validator/cli.py: the structural validator  *)
(* run on an issues file (main with --issues-file, as the tests run it).   *)
(***************************************************************************)
\* The issue number test_ignores_out_of_scope_dependencies adds as a
\* dependency that is not among the issues.
OUT_OF_SCOPE == 99

ValLabels == {"tan", "molt", "needs-pr", "helpdesk"}

DepTargets == Issues \cup {OUT_OF_SCOPE}

TIER_ORDER == {"hard", "advisory", "info"}

Checks ==
    {"missing_molt_issue", "missing_tan_issue", "multiple_tan_issues",
     "missing_needs_pr_issue", "missing_milestone", "missing_assignee",
     "missing_parent_dependency", "leaf_without_needs_pr", "tan_reachability",
     "molt_reachability", "molt_as_dependency", "multiple_molt_issues",
     "base_branch"}

DEFAULT_CHECK_TIERS ==
    [c \in Checks |->
        IF c \in {"missing_assignee", "tan_reachability"} THEN "advisory" ELSE "hard"]

\* validator/cli.py LEVEL_TIERS
LEVEL_TIERS ==
    [level \in {"hard", "advisory", "all"} |->
        CASE level = "hard"     -> {"hard"}
          [] level = "advisory" -> {"hard", "advisory"}
          [] OTHER              -> TIER_ORDER]

Levels == DOMAIN LEVEL_TIERS

\* The fixture valid_issues of tests/test_validator.py: 1 tan, 2 needs-pr
\* depending on 1, 3 molt depending on 2, each with assignee and milestone.
\* A further number is not in the file; once added it is the issue of
\* test_flags_unwired_issue (no labels, no dependencies).
ValidIssues ==
    [i \in Issues |->
        [present   |-> i <= 3,
         labels    |-> CASE i = 1 -> {"tan"}
                         [] i = 2 -> {"needs-pr"}
                         [] i = 3 -> {"molt"}
                         [] OTHER -> {},
         assignee  |-> TRUE,
         milestone |-> TRUE,
         deps      |-> CASE i = 2 -> {1}
                         [] i = 3 -> {2}
                         [] OTHER -> {}]]

\* Config as load_config leaves it for the tests' validator.yaml: no exempt
\* issue, no tier override ("" is an absent key).
DefaultConfig ==
    [exempt_issues |-> {}, check_tiers |-> [c \in Checks |-> ""]]

\* The tier overrides the model explores: a check raised to hard, one
\* lowered to info, and one set to a word that is no tier.
Overrides ==
    {<<"missing_assignee", "hard">>, <<"missing_milestone", "info">>,
     <<"tan_reachability", "warn">>}

listed(issues) == {i \in DOMAIN issues : issues[i].present}

build_graph_issues_no_synthetic(issues) ==
    LET nodes == listed(issues)
    IN  [nodes     |-> nodes,
         labels    |-> [n \in nodes |-> issues[n].labels],
         synthetic |-> [n \in nodes |-> FALSE],
         edges     |-> {e \in nodes \X nodes : e[1] \in issues[e[2]].deps},
         assignee  |-> [n \in nodes |-> issues[n].assignee],
         milestone |-> [n \in nodes |-> issues[n].milestone]]

\* build_graph on issue records: a node per issue with its labels, assignee
\* and milestone, a synthetic node for a dependency that is no issue of the
\* input, an edge dependency -> dependent per declared dependency.
build_graph_issues(issues) ==
    LET listing == listed(issues)
        nodes   == listing \cup UNION {issues[i].deps : i \in listing}
    IN  [nodes     |-> nodes,
         labels    |-> [n \in nodes |-> IF n \in listing THEN issues[n].labels ELSE {}],
         synthetic |-> [n \in nodes |-> n \notin listing],
         edges     |-> {e \in nodes \X nodes :
                          e[2] \in listing /\ e[1] \in issues[e[2]].deps},
         assignee  |-> [n \in nodes |-> n \in listing /\ issues[n].assignee],
         milestone |-> [n \in nodes |-> n \in listing /\ issues[n].milestone]]

has_path_proper(g, a, b) == b \in descendants(g, a)

\* nx.has_path(graph, a, b): a node has a path to itself.
has_path(g, a, b) == b \in bfs_forward(g, {a}, {a})

\* _reachable_from_any
reachable_from_any(g, sources, target) == \E src \in sources : has_path(g, src, target)

\* _reaches_any
reaches_any(g, source, sinks) == \E sink \in sinks : has_path(g, source, sink)

\* _resolve_tier and cli._tier_for
resolve_tier(check, config) ==
    LET tier == IF config.check_tiers[check] # ""
                THEN config.check_tiers[check]
                ELSE DEFAULT_CHECK_TIERS[check]
    IN  IF tier \in TIER_ORDER THEN tier ELSE "advisory"

\* _add_message: node is the issue the message is about (0: the whole
\* set), other the molt issue a molt_as_dependency message names.
message(check, node, other, config) ==
    [check |-> check, tier |-> resolve_tier(check, config), node |-> node,
     other |-> other]

set_messages_sink_optional(g, config) ==
    LET tan_nodes      == {n \in g.nodes : "tan" \in g.labels[n]}
        needs_pr_nodes == {n \in g.nodes : "needs-pr" \in g.labels[n]}
    IN  (IF tan_nodes = {} THEN {message("missing_tan_issue", 0, 0, config)}
         ELSE IF Cardinality(tan_nodes) > 1
         THEN {message("multiple_tan_issues", 0, 0, config)} ELSE {})
        \cup
        (IF needs_pr_nodes = {} THEN {message("missing_needs_pr_issue", 0, 0, config)}
         ELSE {})

\* Lines 139-150: the checks of the whole set.
set_messages(g, config) ==
    LET molt_nodes     == {n \in g.nodes : "molt" \in g.labels[n]}
        tan_nodes      == {n \in g.nodes : "tan" \in g.labels[n]}
        needs_pr_nodes == {n \in g.nodes : "needs-pr" \in g.labels[n]}
    IN  (IF molt_nodes = {} THEN {message("missing_molt_issue", 0, 0, config)}
         ELSE IF Cardinality(molt_nodes) > 1
         THEN {message("multiple_molt_issues", 0, 0, config)} ELSE {})
        \cup
        (IF tan_nodes = {} THEN {message("missing_tan_issue", 0, 0, config)}
         ELSE IF Cardinality(tan_nodes) > 1
         THEN {message("multiple_tan_issues", 0, 0, config)} ELSE {})
        \cup
        (IF needs_pr_nodes = {} THEN {message("missing_needs_pr_issue", 0, 0, config)}
         ELSE {})

checked_nodes_all(g, config) == g.nodes

\* Lines 152-154: the nodes the loop does not skip.
checked_nodes(g, config) ==
    {n \in g.nodes : ~g.synthetic[n] /\ n \notin config.exempt_issues}

\* Lines 156-196: the checks of one node the loop does not skip.
node_messages(g, config, node) ==
    LET molt_nodes   == {n \in g.nodes : "molt" \in g.labels[n]}
        tan_nodes    == {n \in g.nodes : "tan" \in g.labels[n]}
        labels       == g.labels[node]
        has_needs_pr == "needs-pr" \in labels
        is_molt      == "molt" \in labels
        is_tan       == "tan" \in labels
        is_helpdesk  == "helpdesk" \in labels
        unmarked     == ~is_molt /\ ~is_tan /\ ~has_needs_pr
    IN  (IF ~g.assignee[node] THEN {message("missing_assignee", node, 0, config)} ELSE {})
        \cup
        (IF is_helpdesk THEN {}
         ELSE
           (IF ~g.milestone[node]
            THEN {message("missing_milestone", node, 0, config)} ELSE {})
           \cup
           (IF unmarked /\ predecessors(g, node) = {}
            THEN {message("missing_parent_dependency", node, 0, config)} ELSE {})
           \cup
           (IF unmarked /\ successors(g, node) = {}
            THEN {message("leaf_without_needs_pr", node, 0, config)} ELSE {})
           \cup
           (IF tan_nodes # {} /\ ~reachable_from_any(g, tan_nodes, node)
            THEN {message("tan_reachability", node, 0, config)} ELSE {})
           \cup
           (IF molt_nodes # {} /\ ~reaches_any(g, node, molt_nodes)
            THEN {message("molt_reachability", node, 0, config)} ELSE {})
           \cup
           (IF ~is_molt
            THEN {message("molt_as_dependency", node, molt, config) :
                     molt \in {m \in molt_nodes : <<m, node>> \in g.edges}}
            ELSE {}))

\* validate_issues(issues, config) with no tan_next_phase: the messages,
\* as a set (no two messages of a run are equal).
validate_issues(issues, config) ==
    LET g == build_graph_issues(issues)
    IN  set_messages(g, config)
        \cup UNION {node_messages(g, config, n) : n \in checked_nodes(g, config)}

hard_of(messages) == {m \in messages : m.tier = "hard"}

hard_messages_any_tier(messages) == messages

\* cli.py:248
hard_messages(messages) == hard_of(messages)

\* cli.py:249
visible_messages(messages, level) == {m \in messages : m.tier \in LEVEL_TIERS[level]}

NoRun ==
    [state |-> "none", level |-> "hard", exit |-> 0, status |-> "none",
     messages |-> {}, visible |-> {}]

\* main (cli.py:191-256) with --issues-file: the messages of
\* validate_issues, the visible ones rendered (the status of _render_json
\* is "failed" when a rendered message is hard), exit code 1 when a message
\* is hard.
main(issues, config, level) ==
    LET messages == validate_issues(issues, config)
        visible  == visible_messages(messages, level)
    IN  [state    |-> "returned",
         level    |-> level,
         exit     |-> IF hard_messages(messages) # {} THEN 1 ELSE 0,
         status   |-> IF hard_messages(visible) # {} THEN "failed" ELSE "passed",
         messages |-> messages,
         visible  |-> visible]

ValidatorMain(level) ==
    /\ val_out.state = "none"
    /\ val_out' = main(val_issues, val_config, level)
    /\ UNCHANGED <<val_issues, val_config>>

\* How many facts of an issues file and a config differ from the fixture.
ValEdits(issues, config) ==
    Cardinality({i \in Issues : issues[i].present # ValidIssues[i].present})
    + Cardinality({p \in Issues \X ValLabels :
                     p[2] \in SymDiff(issues[p[1]].labels, ValidIssues[p[1]].labels)})
    + Cardinality({p \in Issues \X DepTargets :
                     p[2] \in SymDiff(issues[p[1]].deps, ValidIssues[p[1]].deps)})
    + Cardinality({i \in Issues : ~issues[i].assignee})
    + Cardinality({i \in Issues : ~issues[i].milestone})
    + Cardinality(config.exempt_issues)
    + Cardinality({c \in Checks : config.check_tiers[c] # ""})

\* The issues file or the config is written anew before the run: one fact
\* changes.
EditFile(issues, config) ==
    /\ val_out.state = "none"
    /\ ValEdits(issues, config) <= MaxValEdits
    /\ val_issues' = issues
    /\ val_config' = config
    /\ UNCHANGED val_out

\* An issue is taken out of the file, or put into it as the fixture has it.
ToggleIssue(i) ==
    EditFile([val_issues EXCEPT
                 ![i] = [ValidIssues[i] EXCEPT !.present = ~val_issues[i].present]],
             val_config)

ToggleLabel(i, l) ==
    /\ val_issues[i].present
    /\ EditFile([val_issues EXCEPT ![i].labels = SymDiff(@, {l})], val_config)

ToggleDependency(i, d) ==
    /\ val_issues[i].present
    /\ EditFile([val_issues EXCEPT ![i].deps = SymDiff(@, {d})], val_config)

ToggleAssignee(i) ==
    /\ val_issues[i].present
    /\ EditFile([val_issues EXCEPT ![i].assignee = ~@], val_config)

ToggleMilestone(i) ==
    /\ val_issues[i].present
    /\ EditFile([val_issues EXCEPT ![i].milestone = ~@], val_config)

ToggleExempt(i) ==
    EditFile(val_issues, [val_config EXCEPT !.exempt_issues = SymDiff(@, {i})])

ToggleOverride(o) ==
    EditFile(val_issues,
             [val_config EXCEPT !.check_tiers[o[1]] = IF @ = "" THEN o[2] ELSE ""])

ValInit ==
    /\ val_issues = ValidIssues
    /\ val_config = DefaultConfig
    /\ val_out = NoRun

TrackerInit ==
    /\ issue_state = [i \in Issues |-> "open"]
    /\ issue_labels = FixtureLabels
    /\ issue_deps = FixtureDeps

SchedInit ==
    /\ graph = EmptyGraph
    /\ active_nodes = {}
    /\ ready_queue = <<>>
    /\ cq_status = "none"
    /\ priority_scores = <<>>

\* APIKeyPool(keys) and WorkerPool(worker, key_pool, max_parallel) as
\* constructed: no key used, every rate_limit_reset at the construction time.
PoolInit(n, mp) ==
    /\ now = 0
    /\ keys = 1..n
    /\ usage_counts = [k \in KeyLabels |-> 0]
    /\ rate_limit_reset = [k \in KeyLabels |-> 0]
    /\ max_parallel = mp

DispInit ==
    /\ issue_ids = <<>>
    /\ model_preference = ""
    /\ unit = <<>>
    /\ results = <<>>
    /\ disp_pc = "idle"

CycleInit ==
    /\ cycle_pc = "start"
    /\ cycle_targets = <<>>
    /\ cycle_idx = 1
    /\ reverted = {}
    /\ label_errors = 0

KeysInit == calls = <<>>

MergeInit ==
    /\ pr_merged = {}
    /\ merge_pc = "idle"
    /\ merge_list = <<>>
    /\ merge_idx = 1
    /\ passes = 0
    /\ seen = [n \in Issues \cup PullRequests |-> "unseen"]
    /\ merge_log = <<>>

(***************************************************************************)
(* Spec: the scheduler's reads of the tracker.                             *)
(***************************************************************************)
Init ==
    /\ TrackerInit
    /\ SchedInit
    /\ PoolInit(MaxKeys, MaxParallel)
    /\ DispInit
    /\ CycleInit
    /\ KeysInit
    /\ MergeInit
    /\ ClaimInit
    /\ ValInit

Next ==
    /\ \/ \E i \in Issues : CloseIssue(i)
       \/ \E i \in Issues, l \in GraphLabels : AddLabel(i, l)
       \/ \E i \in Issues, l \in GraphLabels : RemoveLabel(i, l)
       \/ \E i \in Issues, d \in Issues : AddDependency(i, d)
       \/ \E i \in Issues, d \in Issues : RemoveDependency(i, d)
       \/ \E e \in {"none", "list", "refetch"}, de \in SUBSET Issues : ComputeReadyQueue(e, de)
       \/ CalculatePriority
    /\ UNCHANGED <<pool_vars, disp_vars, cycle_vars, key_vars, merge_vars>>
    /\ UNCHANGED <<claim_vars, val_vars>>

Spec == Init /\ [][Next]_vars

(***************************************************************************)
(* SpecPool: one WorkerPool.dispatch call on a fresh pool.                 *)
(***************************************************************************)
InitPool ==
    /\ TrackerInit
    /\ SchedInit
    /\ \E n \in 0..MaxKeys, mp \in 1..MaxParallel : PoolInit(n, mp)
    /\ DispInit
    /\ CycleInit
    /\ KeysInit
    /\ MergeInit
    /\ ClaimInit
    /\ ValInit

NextPool ==
    /\ \/ \E ids \in DispatchInputs, pref \in ModelPreferences :
             DispatchStart(ids, pref) /\ UNCHANGED pool_vars
       \/ \E u \in DOMAIN unit : UnitSelect(u)
       \/ \E u \in DOMAIN unit : UnitLoad(u)
       \/ \E u \in DOMAIN unit : UnitStore(u)
       \/ \E u \in DOMAIN unit, r \in WorkerReturns : UnitWorkerReturns(u, r)
       \/ \E u \in DOMAIN unit, t \in WorkerRaises : UnitWorkerRaises(u, t)
       \/ \E u \in DOMAIN unit : DispatchCollect(u)
       \/ DispatchReturn
       \/ Tick /\ UNCHANGED disp_vars
    /\ UNCHANGED <<tracker_vars, sched_vars, cycle_vars, key_vars, merge_vars>>
    /\ UNCHANGED <<claim_vars, val_vars>>

SpecPool == InitPool /\ [][NextPool]_vars

(***************************************************************************)
(* SpecKeys: a pool of 0..MaxKeys keys under any sequence of               *)
(* get_next_available and mark_rate_limited calls, with time passing.      *)
(***************************************************************************)
InitKeys ==
    /\ TrackerInit
    /\ SchedInit
    /\ \E n \in 0..MaxKeys : PoolInit(n, MaxParallel)
    /\ DispInit
    /\ CycleInit
    /\ KeysInit
    /\ MergeInit
    /\ ClaimInit
    /\ ValInit

NextKeys ==
    /\ \/ \E pref \in ModelPreferences : GetNextAvailable(pref)
       \/ \E l \in KeyLabels, d \in ResetAfterSeconds : MarkRateLimited(l, d)
       \/ Tick /\ UNCHANGED calls
    /\ UNCHANGED <<tracker_vars, sched_vars, disp_vars, cycle_vars, merge_vars>>
    /\ UNCHANGED <<claim_vars, val_vars>>

SpecKeys == InitKeys /\ [][NextKeys]_vars

(***************************************************************************)
(* SpecMerge: successive run_cycle calls, each from its auto-merge pass to *)
(* the end of its compute_ready_queue call. The tracker answers any        *)
(* reviews, head and CI state, or an error, to each request.               *)
(***************************************************************************)
InitMerge ==
    /\ TrackerInit
    /\ SchedInit
    /\ PoolInit(MaxKeys, MaxParallel)
    /\ DispInit
    /\ cycle_pc = "merging"
    /\ cycle_targets = <<>>
    /\ cycle_idx = 1
    /\ reverted = {}
    /\ label_errors = 0
    /\ KeysInit
    /\ MergeInit
    /\ ClaimInit
    /\ ValInit

NextMerge ==
    /\ \/ /\ \E list_error \in BOOLEAN : MergeStart(list_error)
          /\ UNCHANGED <<tracker_vars, sched_vars, pool_vars, disp_vars,
                         cycle_targets, cycle_idx, reverted, label_errors>>
       \/ /\ \E a \in Answers : MergePR(a)
          /\ UNCHANGED <<tracker_vars, sched_vars, pool_vars, disp_vars,
                         cycle_targets, cycle_idx, reverted, label_errors>>
       \/ /\ MergeReturn
          /\ UNCHANGED <<tracker_vars, sched_vars, pool_vars, disp_vars,
                         cycle_targets, cycle_idx, reverted, label_errors>>
       \/ /\ \E e \in {"none", "list", "refetch"}, de \in SUBSET Issues :
                CycleCompute(e, de)
          /\ UNCHANGED merge_vars
       \/ /\ NextRunCycle
          /\ UNCHANGED <<tracker_vars, sched_vars, pool_vars, disp_vars,
                         cycle_idx, reverted, label_errors>>
    /\ UNCHANGED key_vars
    /\ UNCHANGED <<claim_vars, val_vars>>

SpecMerge == InitMerge /\ [][NextMerge]_vars

(***************************************************************************)
(* SpecCycle: one Scheduler.run_cycle, from its compute_ready_queue call   *)
(* on (the auto-merge pass before it is not part of this specification).   *)
(* The tracker holds the fixture, or the fixture with issue 4 made a       *)
(* second path from 1 to 3, and does not change under the cycle but by the *)
(* cycle's own label writes. The clock stands still during the cycle.      *)
(***************************************************************************)
DiamondDeps == [FixtureDeps EXCEPT ![4] = {1}, ![3] = {2, 4}]

InitCycle ==
    /\ issue_state = [i \in Issues |-> "open"]
    /\ issue_labels = FixtureLabels
    /\ issue_deps \in {FixtureDeps, DiamondDeps}
    /\ SchedInit
    /\ \E mp \in 1..MaxParallel : PoolInit(MaxKeys, mp)
    /\ DispInit
    /\ CycleInit
    /\ KeysInit
    /\ MergeInit
    /\ ClaimInit
    /\ ValInit

NextCycle ==
    /\ \/ \E e \in {"none", "list", "refetch"}, de \in SUBSET Issues : CycleCompute(e, de)
       \/ \E o \in WriteOutcomes : CycleMark(o)
       \/ CycleDispatch
       \/ /\ \/ \E u \in DOMAIN unit : UnitSelect(u)
             \/ \E u \in DOMAIN unit : UnitLoad(u)
             \/ \E u \in DOMAIN unit : UnitStore(u)
             \/ \E u \in DOMAIN unit, r \in WorkerReturns : UnitWorkerReturns(u, r)
             \/ \E u \in DOMAIN unit, t \in WorkerRaises : UnitWorkerRaises(u, t)
             \/ \E u \in DOMAIN unit : DispatchCollect(u)
          /\ UNCHANGED <<tracker_vars, sched_vars, cycle_vars>>
       \/ CycleDispatchReturn
       \/ \E o \in WriteOutcomes : CycleRevert(o)
       \/ CycleEnd
    /\ UNCHANGED <<key_vars, merge_vars>>
    /\ UNCHANGED <<claim_vars, val_vars>>

SpecCycle == InitCycle /\ [][NextCycle]_vars

(***************************************************************************)
(* SpecClaim: one `carapace queue` call on a tracker that holds the        *)
(* fixture or its diamond, with issues 2 and 4 open or closed, labelled    *)
(* needs-pr or in-progress, assigned or not, issue 4 in any phase, and any *)
(* of the pull requests open.                                              *)
(***************************************************************************)
WorkIssues == {2, 4}

InitClaim ==
    /\ \E closed \in SUBSET WorkIssues :
          issue_state = [i \in Issues |-> IF i \in closed THEN "closed" ELSE "open"]
    /\ \E started \in SUBSET WorkIssues :
          issue_labels = [i \in Issues |-> IF i \in started THEN {"in-progress"}
                                                           ELSE FixtureLabels[i]]
    /\ issue_deps \in {FixtureDeps, DiamondDeps}
    /\ SchedInit
    /\ PoolInit(MaxKeys, MaxParallel)
    /\ DispInit
    /\ CycleInit
    /\ KeysInit
    /\ pr_merged \in SUBSET PullRequests
    /\ merge_pc = "idle"
    /\ merge_list = <<>>
    /\ merge_idx = 1
    /\ passes = 0
    /\ seen = [n \in Issues \cup PullRequests |-> "unseen"]
    /\ merge_log = <<>>
    /\ \E a2 \in {{"alice"}, {"bob"}}, a4 \in {{}, {"alice"}} :
          issue_assignees = [i \in Issues |-> CASE i = 2 -> a2
                                                [] i = 4 -> a4
                                                [] OTHER -> {}]
    /\ \E p \in Phases : issue_phase = [i \in Issues |-> IF i = 4 THEN p ELSE 1]
    /\ pr_author = PrAuthors
    /\ claim_out = NoClaim
    /\ claimer = NoClaimers
    /\ ValInit

NextClaim ==
    /\ \E claim \in BOOLEAN, assignee \in {""} \cup Actors, milestone \in Phases,
          outcome \in QueueOutcomes :
             QueueRun(claim, assignee, milestone, outcome)
    /\ UNCHANGED <<sched_vars, pool_vars, disp_vars, cycle_vars, key_vars,
                   merge_vars, val_vars>>

SpecClaim == InitClaim /\ [][NextClaim]_vars

(***************************************************************************)
(* SpecValidate: validator runs at any visibility level on an issues file  *)
(* and a config up to MaxValEdits facts away from the tests' fixture.      *)
(***************************************************************************)
NextValidate ==
    /\ \/ \E i \in Issues : ToggleIssue(i)
       \/ \E i \in Issues, l \in ValLabels : ToggleLabel(i, l)
       \/ \E i \in Issues, d \in DepTargets : ToggleDependency(i, d)
       \/ \E i \in Issues : ToggleAssignee(i)
       \/ \E i \in Issues : ToggleMilestone(i)
       \/ \E i \in Issues : ToggleExempt(i)
       \/ \E o \in Overrides : ToggleOverride(o)
       \/ \E level \in Levels : ValidatorMain(level)
    /\ UNCHANGED <<tracker_vars, sched_vars, pool_vars, disp_vars, cycle_vars,
                   key_vars, merge_vars, claim_vars>>

SpecValidate == Init /\ [][NextValidate]_vars

(***************************************************************************)
(* SpecRun: one scheduler process (scheduler.py:154-174), that is one      *)
(* whole Scheduler.run_cycle from its auto-merge pass to its reverts on    *)
(* the tracker of SpecCycle, followed by one `carapace queue` call on the  *)
(* tracker as the cycle left it. Issue 2 is assigned to alice and issue 4  *)
(* to bob.                                                                 *)
(***************************************************************************)
\* The answers the tracker gives to the auto-merge pass of this cycle: the
\* pull request is approved, its CI state is success and no request fails,
\* so that the pass merges every pull request it lists.
RunAnswers ==
    {a \in Answers :
        /\ a.reviews = {"APPROVED"}
        /\ a.head_sha
        /\ a.status = "success"
        /\ ~raises(a.reviews_code) /\ ~raises(a.details_code)
        /\ ~raises(a.status_code) /\ ~raises(a.merge_code)}

RunAssignees ==
    [i \in Issues |-> CASE i = 2 -> {"alice"}
                        [] i = 4 -> {"bob"}
                        [] OTHER -> {}]

\* run_cycle has returned or was left by an exception and the scheduler
\* process ends: the graph, the queue, the pool and the results are gone;
\* the tracker stays as it is. cycle_targets, reverted and label_errors
\* are kept as the record of what the cycle did.
ProcessExit ==
    /\ cycle_pc \in {"done", "crashed"}
    /\ cycle_pc' = "exited"
    /\ Forget
    /\ usage_counts' = [k \in KeyLabels |-> 0]
    /\ rate_limit_reset' = [k \in KeyLabels |-> 0]
    /\ issue_ids' = <<>>
    /\ model_preference' = ""
    /\ unit' = <<>>
    /\ results' = <<>>
    /\ disp_pc' = "idle"
    /\ cycle_idx' = 1
    /\ merge_pc' = "idle"
    /\ merge_list' = <<>>
    /\ merge_idx' = 1
    /\ seen' = [n \in Issues \cup PullRequests |-> "unseen"]
    /\ merge_log' = <<>>
    /\ UNCHANGED <<tracker_vars, now, keys, max_parallel, cycle_targets, reverted,
                   label_errors, pr_merged, passes, claim_vars>>

InitRun ==
    /\ issue_state = [i \in Issues |-> "open"]
    /\ issue_labels = FixtureLabels
    /\ issue_deps \in {FixtureDeps, DiamondDeps}
    /\ SchedInit
    /\ \E mp \in 1..MaxParallel : PoolInit(MaxKeys, mp)
    /\ DispInit
    /\ cycle_pc = "merging"
    /\ cycle_targets = <<>>
    /\ cycle_idx = 1
    /\ reverted = {}
    /\ label_errors = 0
    /\ KeysInit
    /\ MergeInit
    /\ issue_assignees = RunAssignees
    /\ issue_phase = [i \in Issues |-> 1]
    /\ pr_author = PrAuthors
    /\ claim_out = NoClaim
    /\ claimer = NoClaimers
    /\ ValInit

NextRun ==
    /\ \/ /\ \/ \E list_error \in BOOLEAN : MergeStart(list_error)
             \/ \E a \in RunAnswers : MergePR(a)
             \/ MergeReturn
          /\ UNCHANGED <<tracker_vars, sched_vars, pool_vars, disp_vars,
                         cycle_targets, cycle_idx, reverted, label_errors,
                         claim_vars>>
       \/ /\ \/ \E e \in {"none", "list", "refetch"}, de \in SUBSET Issues :
                   CycleCompute(e, de)
             \/ \E o \in WriteOutcomes : CycleMark(o)
             \/ CycleDispatch
             \/ /\ \/ \E u \in DOMAIN unit : UnitSelect(u)
                   \/ \E u \in DOMAIN unit : UnitLoad(u)
                   \/ \E u \in DOMAIN unit : UnitStore(u)
                   \/ \E u \in DOMAIN unit, r \in WorkerReturns : UnitWorkerReturns(u, r)
                   \/ \E u \in DOMAIN unit, t \in WorkerRaises : UnitWorkerRaises(u, t)
                   \/ \E u \in DOMAIN unit : DispatchCollect(u)
                /\ UNCHANGED <<tracker_vars, sched_vars, cycle_vars>>
             \/ CycleDispatchReturn
             \/ \E o \in WriteOutcomes : CycleRevert(o)
             \/ CycleEnd
          /\ UNCHANGED <<merge_vars, claim_vars>>
       \/ ProcessExit
       \/ /\ cycle_pc = "exited"
          /\ \E assignee \in Actors, milestone \in Phases, outcome \in QueueOutcomes :
                   QueueRun(TRUE, assignee, milestone, outcome)
          /\ UNCHANGED <<sched_vars, pool_vars, disp_vars, cycle_vars, merge_vars>>
    /\ UNCHANGED <<key_vars, val_vars>>

SpecRun == InitRun /\ [][NextRun]_vars

(***************************************************************************)
(* SpecClaims: `carapace queue --claim` called again and again, one call   *)
(* after the other, by the actors of a tracker on which nothing is in      *)
(* progress. Issue 2 is assigned to one actor, issue 4 to none or to one   *)
(* actor and is in either phase; the pull requests are all open or all     *)
(* merged; claim_out holds what the last call left.                        *)
(***************************************************************************)
InitClaims ==
    /\ issue_state = [i \in Issues |-> "open"]
    /\ issue_labels = FixtureLabels
    /\ issue_deps \in {FixtureDeps, DiamondDeps}
    /\ SchedInit
    /\ PoolInit(MaxKeys, MaxParallel)
    /\ DispInit
    /\ CycleInit
    /\ KeysInit
    /\ pr_merged \in {{}, PullRequests}
    /\ merge_pc = "idle"
    /\ merge_list = <<>>
    /\ merge_idx = 1
    /\ passes = 0
    /\ seen = [n \in Issues \cup PullRequests |-> "unseen"]
    /\ merge_log = <<>>
    /\ \E a2 \in {{"alice"}, {"bob"}}, a4 \in {{}, {"alice"}, {"bob"}} :
          issue_assignees = [i \in Issues |-> CASE i = 2 -> a2
                                                [] i = 4 -> a4
                                                [] OTHER -> {}]
    /\ \E p \in Phases : issue_phase = [i \in Issues |-> IF i = 4 THEN p ELSE 1]
    /\ pr_author = PrAuthors
    /\ claim_out = NoClaim
    /\ claimer = NoClaimers
    /\ ValInit

\* What may go wrong in a call that gets as far as the ready queue.
ClaimsOutcomes == {"ok", "ready_error", "add_fails", "remove_fails"}

NextClaims ==
    /\ \E assignee \in Actors, milestone \in Phases, outcome \in ClaimsOutcomes :
          QueueCall(TRUE, assignee, milestone, outcome)
    /\ UNCHANGED <<sched_vars, pool_vars, disp_vars, cycle_vars, key_vars,
                   merge_vars, val_vars>>

SpecClaims == InitClaims /\ [][NextClaims]_vars

(***************************************************************************)
(* SpecRace: one `carapace queue --claim` call of each actor, the calls    *)
(* running at the same time against one tracker on which nothing is in     *)
(* progress. An issue may have both actors among its assignees.            *)
(***************************************************************************)
InitRace ==
    /\ issue_state = [i \in Issues |-> "open"]
    /\ issue_labels = FixtureLabels
    /\ issue_deps \in {FixtureDeps, DiamondDeps}
    /\ SchedInit
    /\ PoolInit(MaxKeys, MaxParallel)
    /\ DispInit
    /\ CycleInit
    /\ KeysInit
    /\ pr_merged \in {{}, PullRequests}
    /\ merge_pc = "idle"
    /\ merge_list = <<>>
    /\ merge_idx = 1
    /\ passes = 0
    /\ seen = [n \in Issues \cup PullRequests |-> "unseen"]
    /\ merge_log = <<>>
    /\ \E a2 \in SUBSET Actors, a4 \in SUBSET Actors :
          issue_assignees = [i \in Issues |-> CASE i = 2 -> a2
                                                [] i = 4 -> a4
                                                [] OTHER -> {}]
    /\ \E p \in Phases : issue_phase = [i \in Issues |-> IF i = 4 THEN p ELSE 1]
    /\ pr_author = PrAuthors
    /\ claim_out = NoClaim
    /\ claimer = NoClaimers
    /\ ValInit

NextRace ==
    /\ \/ \E a \in Actors, milestone \in Phases : ClaimRead(a, milestone)
       \/ \E a \in Actors, raised \in BOOLEAN : ClaimWrite(a, raised)
    /\ UNCHANGED <<sched_vars, pool_vars, disp_vars, cycle_vars, key_vars,
                   merge_vars, val_vars>>

SpecRace == InitRace /\ [][NextRace]_vars

(***************************************************************************)
(* SpecProgress: successive scheduler cycles on an acyclic dependency      *)
(* graph from the source 1 to the sink 3 over the needs-pr issues 2 and 4, *)
(* in which the issues a cycle dispatched get their work merged and are    *)
(* closed by the tracker before the next cycle.                            *)
(***************************************************************************)
\* The acyclic dependency maps over the fixture's issues: 2 and 4 may
\* depend on the source and on each other (not both ways), the sink on 2
\* and 4.
AcyclicDeps ==
    {[i \in Issues |-> CASE i = 2 -> d2
                         [] i = 3 -> d3
                         [] i = 4 -> d4
                         [] OTHER -> {}] :
        d2 \in SUBSET {1, 4}, d3 \in SUBSET {2, 4}, d4 \in SUBSET {1, 2}}
    \ {d \in [Issues -> SUBSET Issues] : 4 \in d[2] /\ 2 \in d[4]}

\* run_cycle lines 120-122: the issues the last cycle took from its queue.
cycle_targets_of(queue) == SubSeq(queue, 1, Min(Len(queue), max_parallel))

\* The work on a dispatched issue is merged and the tracker closes the
\* issue; the next cycle starts from the tracker as it then is.
WorkDone(i) ==
    /\ cq_status = "returned"
    /\ \E k \in DOMAIN cycle_targets_of(ready_queue) : ready_queue[k] = i
    /\ issue_state' = [issue_state EXCEPT ![i] = "closed"]
    /\ UNCHANGED <<issue_labels, issue_deps>>
    /\ Forget

\* A cycle is over and the tracker is as it was.
CycleOver ==
    /\ cq_status # "none"
    /\ UNCHANGED tracker_vars
    /\ Forget

InitProgress ==
    /\ issue_state = [i \in Issues |-> "open"]
    /\ issue_labels = FixtureLabels
    /\ issue_deps \in AcyclicDeps
    /\ SchedInit
    /\ PoolInit(MaxKeys, MaxParallel)
    /\ DispInit
    /\ CycleInit
    /\ KeysInit
    /\ MergeInit
    /\ ClaimInit
    /\ ValInit

NextProgress ==
    /\ \/ \E e \in {"none", "list", "refetch"}, de \in SUBSET Issues :
             ComputeReadyQueue(e, de)
       \/ \E i \in Issues : WorkDone(i)
       \/ CycleOver
    /\ UNCHANGED <<pool_vars, disp_vars, cycle_vars, key_vars, merge_vars,
                   claim_vars, val_vars>>

SpecProgress == InitProgress /\ [][NextProgress]_vars

(***************************************************************************)
(* Definitions the properties are stated with: reachability as the         *)
(* transitive closure of the edge relation, and the tracker's own view of  *)
(* which issues are open sources and sinks.                                *)
(***************************************************************************)
RECURSIVE PathClosure(_)
PathClosure(R) ==
    LET R2 == R \cup {<<p[1][1], p[2][2]>> : p \in {q \in R \X R : q[1][2] = q[2][1]}}
    IN  IF R2 = R THEN R ELSE PathClosure(R2)

\* <<a, b>> is in ReachPlus(g) iff a path of one or more edges leads from a to b.
ReachPlus(g) == PathClosure(g.edges)

QueueSet == {ready_queue[k] : k \in DOMAIN ready_queue}

OpenSource(n) == issue_state[n] = "open" /\ "tan" \in issue_labels[n]

OpenSink(n) == issue_state[n] = "open" /\ "molt" \in issue_labels[n]

\* n lies between an open source and an open sink (zero or more edges each way).
Between(plus, n) ==
    /\ \E s \in Issues : OpenSource(s) /\ (s = n \/ <<s, n>> \in plus)
    /\ \E t \in Issues : OpenSink(t) /\ (t = n \/ <<n, t>> \in plus)

\* Every direct predecessor of n in the fetched graph is a closed issue
\* (a synthetic placeholder) or carries the source label.
DepsSatisfied(n) ==
    \A p \in graph.nodes :
        <<p, n>> \in graph.edges =>
            issue_state[p] = "closed" \/ "tan" \in issue_labels[p]

ProperDescendants(plus, n) == {m \in graph.nodes : m # n /\ <<n, m>> \in plus}

(***************************************************************************)
(* C1: compute_ready_queue returns an issue iff it is open, carries        *)
(* needs-pr, lies in the active subgraph and every direct predecessor in   *)
(* the fetched graph is synthetic or tan-labelled; no issue is returned    *)
(* twice.                                                                  *)
(***************************************************************************)
C1_ReadyIff ==
    cq_status = "returned" =>
        LET plus == ReachPlus(graph)
        IN  /\ QueueSet \subseteq Issues
            /\ Len(ready_queue) = Cardinality(QueueSet)
            /\ \A n \in Issues :
                  n \in QueueSet <=>
                      /\ issue_state[n] = "open"
                      /\ "needs-pr" \in issue_labels[n]
                      /\ Between(plus, n)
                      /\ DepsSatisfied(n)

\* A call that returned a ready issue, kept out an active needs-pr issue with
\* an open non-source dependency, and kept out a needs-pr issue without
\* dependencies that is outside the active subgraph.
C1_Witness ==
    /\ cq_status = "returned"
    /\ ready_queue # <<>>
    /\ \E b \in Issues :
          /\ issue_state[b] = "open" /\ "needs-pr" \in issue_labels[b]
          /\ Between(ReachPlus(graph), b)
          /\ ~DepsSatisfied(b)
          /\ b \notin QueueSet
    /\ \E o \in Issues :
          /\ issue_state[o] = "open" /\ "needs-pr" \in issue_labels[o]
          /\ issue_deps[o] = {}
          /\ ~Between(ReachPlus(graph), o)
          /\ o \notin QueueSet

(***************************************************************************)
(* C2: get_active_subgraph returns exactly the nodes reachable by zero or  *)
(* more edges from an open source-labelled issue and reaching an open      *)
(* sink-labelled issue; a closed source or sink is no boundary.            *)
(***************************************************************************)
C2_ActiveSubgraphExact ==
    cq_status = "returned" =>
        LET plus == ReachPlus(graph)
        IN  active_nodes = {n \in graph.nodes : Between(plus, n)}

\* A non-empty active subgraph that leaves nodes out, in a graph that holds a
\* closed issue still labelled tan or molt.
C2_Witness ==
    /\ cq_status = "returned"
    /\ active_nodes # {}
    /\ active_nodes # graph.nodes
    /\ \E c \in graph.nodes :
          /\ issue_state[c] = "closed"
          /\ ("tan" \in issue_labels[c] \/ "molt" \in issue_labels[c])

(***************************************************************************)
(* C3: fail-closed. Without a source-labelled node or without a            *)
(* sink-labelled node the active subgraph is empty and the ready queue is  *)
(* empty, whatever needs-pr issues exist.                                  *)
(***************************************************************************)
C3_FailClosed ==
    (/\ cq_status = "returned"
     /\ \/ ~\E n \in graph.nodes : "tan" \in graph.labels[n]
        \/ ~\E n \in graph.nodes : "molt" \in graph.labels[n])
    => (active_nodes = {} /\ ready_queue = <<>>)

\* A call on a graph with a source and open needs-pr issues without
\* open dependencies, but no sink.
C3_Witness ==
    /\ cq_status = "returned"
    /\ \E n \in Issues : OpenSource(n)
    /\ ~\E n \in Issues : OpenSink(n)
    /\ \E n \in Issues :
          /\ issue_state[n] = "open" /\ "needs-pr" \in issue_labels[n]
          /\ DepsSatisfied(n)
    /\ ready_queue = <<>>

C5_ClosedNeverOffered ==
    cq_status = "returned" =>
        \A n \in Issues : issue_state[n] = "closed" => n \notin QueueSet

\* A call made after a needs-pr issue was closed, which returned an issue
\* that depends on the closed one.
C5_Witness ==
    /\ cq_status = "returned"
    /\ \E c \in Issues :
          /\ issue_state[c] = "closed"
          /\ "needs-pr" \in issue_labels[c]
          /\ \E q \in QueueSet : <<c, q>> \in graph.edges

C8_OnlyFirstKDispatched ==
    disp_pc # "idle" =>
        LET N == Len(issue_ids)
            k == max_parallel
            n == IF k < N THEN k ELSE N
        IN  /\ DOMAIN unit = 1..n
            /\ \A u \in DOMAIN unit : unit[u].issue_id = issue_ids[u]
            /\ Len(results) <= n
            /\ disp_pc = "returned" => Len(results) = n

\* A returned dispatch of more ids than max_parallel, whose units ran.
C8_Witness ==
    /\ disp_pc = "returned"
    /\ Len(issue_ids) > max_parallel
    /\ Len(results) = max_parallel
    /\ \A u \in DOMAIN unit : unit[u].key # 0

(***************************************************************************)
(* C9: when worker_impl.run raises in one unit, dispatch still returns:    *)
(* that unit contributes a result with ok = FALSE and the exception text,  *)
(* every sibling unit finishes and contributes its own result, and there   *)
(* is exactly one result per unit.                                         *)
(***************************************************************************)
C9_ExceptionBecomesFailedResult ==
    disp_pc = "returned" =>
        /\ Len(results) = Len(unit)
        /\ \A u \in DOMAIN unit :
              /\ unit[u].pc = "collected"
              /\ \E i \in DOMAIN results :
                    /\ results[i].unit = u
                    /\ results[i].output = unit[u].output
                    /\ results[i].ok = (unit[u].ok /\ ~unit[u].raised)
                    /\ \A j \in DOMAIN results : results[j].unit = u => j = i

\* A returned dispatch in which one unit raised and a sibling succeeded.
C9_Witness ==
    /\ disp_pc = "returned"
    /\ \E u, v \in DOMAIN unit :
          /\ unit[u].raised
          /\ unit[v].ok
          /\ \E i, j \in DOMAIN results :
                /\ results[i].unit = u /\ ~results[i].ok
                /\ results[i].output \in WorkerRaises
                /\ results[j].unit = v /\ results[j].ok

(***************************************************************************)
(* C10: a finished unit whose result is a failure with "429" or "rate      *)
(* limit" (in any case) in its output, returned by the backend or          *)
(* converted from an exception, has had its credential marked rate-limited *)
(* for the default cool-down; and a credential is marked only when a unit  *)
(* that acquired it finished with such a result.                           *)
(***************************************************************************)
C10_MatchingFailureMarksCredential ==
    LET finished(u) == unit[u].pc \in {"done", "collected"} /\ unit[u].key # 0
        collected_(u) == unit[u].pc = "collected" /\ unit[u].key # 0
        matching(u) == LET ok == unit[u].ok /\ ~unit[u].raised
                           text == unit[u].output
                       IN  /\ ~ok
                           /\ \/ contains(text, <<"429">>)
                              \/ contains(lowered(text), <<"rate", "limit">>)
    IN  /\ \A u \in DOMAIN unit :
              collected_(u) /\ matching(u) =>
                  rate_limit_reset[unit[u].key] >= DEFAULT_RESET_AFTER
        /\ \A k \in keys :
              rate_limit_reset[k] # 0 =>
                  \E u \in DOMAIN unit :
                      finished(u) /\ matching(u) /\ unit[u].key = k

(***************************************************************************)
(* C7: when run_cycle is over, the revert branch was taken for exactly the *)
(* dispatched issues whose own worker result is not ok, whatever the order *)
(* in which the workers completed.                                         *)
(***************************************************************************)
C7_RevertIssueOfFailedResult ==
    cycle_pc = "done" =>
        reverted = {unit[u].issue_id : u \in {v \in DOMAIN unit : ~unit[v].ok}}

(***************************************************************************)
(* The APIKeyPool claims are stated over a call of get_next_available:     *)
(* the step that appends a "get" entry to calls. The pool's state before   *)
(* the call is the unprimed one.                                           *)
(***************************************************************************)
LastCall == calls'[Len(calls')]

IsGetCall == Len(calls') = Len(calls) + 1 /\ LastCall.op = "get"

AvailableBefore == {k \in keys : rate_limit_reset[k] <= now}

MatchingBefore(pref) == {k \in AvailableBefore : key_model(k) = pref}

CandidatesBefore(pref) ==
    IF pref # "" /\ MatchingBefore(pref) # {} THEN MatchingBefore(pref)
    ELSE AvailableBefore

LeastUsedEarliest(k, c) ==
    /\ k \in c
    /\ \A j \in c : usage_counts[k] <= usage_counts[j]
    /\ \A j \in c : j < k => usage_counts[k] < usage_counts[j]

C12_NoneWhenNoCapacity ==
    [][IsGetCall /\ AvailableBefore = {} =>
          /\ LastCall.label = 0
          /\ usage_counts' = usage_counts
          /\ rate_limit_reset' = rate_limit_reset]_vars

\* The last call returned none from a pool whose keys are all rate-limited.
C12_Witness ==
    /\ calls # <<>>
    /\ calls[Len(calls)].op = "get" /\ calls[Len(calls)].label = 0
    /\ Cardinality(keys) = MaxKeys
    /\ \A k \in keys : rate_limit_reset[k] > now

(***************************************************************************)
(* C13: a credential returned by get_next_available is a candidate         *)
(* (available, and of the preferred model when the filter applies) of      *)
(* minimum usage count, the earliest such in the pool's order, and the     *)
(* call increments exactly that credential's usage counter by one.         *)
(***************************************************************************)
C13_LeastUsedEarliestIncremented ==
    [][IsGetCall /\ LastCall.label # 0 =>
          /\ LeastUsedEarliest(LastCall.label, CandidatesBefore(LastCall.pref))
          /\ usage_counts' = [usage_counts EXCEPT ![LastCall.label] = @ + 1]]_vars

\* The last call resolved a tie: a later available key holds the count the
\* returned key had before the call.
C13_Witness ==
    /\ calls # <<>>
    /\ LET c == calls[Len(calls)]
       IN  /\ c.op = "get" /\ c.pref = "" /\ c.label # 0
           /\ \E j \in keys : /\ j > c.label
                              /\ rate_limit_reset[j] <= now
                              /\ usage_counts[j] = usage_counts[c.label] - 1
                              /\ usage_counts[j] > 0

(***************************************************************************)
(* C14: with a model preference, get_next_available returns a credential   *)
(* of that model whenever an available one exists, even if credentials of  *)
(* other models are less used; when none matches it returns the least-used *)
(* available credential of any model.                                      *)
(***************************************************************************)
C14_ModelPreference ==
    [][IsGetCall /\ LastCall.pref # "" =>
          /\ MatchingBefore(LastCall.pref) # {} =>
                 /\ LastCall.label # 0
                 /\ key_model(LastCall.label) = LastCall.pref
          /\ MatchingBefore(LastCall.pref) = {} /\ AvailableBefore # {} =>
                 LeastUsedEarliest(LastCall.label, AvailableBefore)]_vars

\* A call with a preference returned a key of that model although an
\* available key of another model was less used, and a later call with the
\* same preference fell back to the other model.
C14_Witness ==
    \E i, j \in DOMAIN calls :
        /\ i < j
        /\ calls[i].op = "get" /\ calls[i].pref # "" /\ calls[i].label # 0
        /\ key_model(calls[i].label) = calls[i].pref
        /\ \E k \in keys : /\ key_model(k) # calls[i].pref
                           /\ rate_limit_reset[k] = 0
                           /\ usage_counts[calls[i].label] >= 2
                           /\ usage_counts[k] <= 1
        /\ calls[j].op = "get" /\ calls[j].pref = calls[i].pref
        /\ calls[j].label # 0
        /\ key_model(calls[j].label) # calls[j].pref

(***************************************************************************)
(* C15: round-robin balance. While every call made is get_next_available   *)
(* without a model preference and no credential is rate-limited, the usage *)
(* counters of the n credentials stay within 1 of each other, the first n  *)
(* calls return n distinct credentials and every later call returns one of *)
(* them.                                                                   *)
(***************************************************************************)
C15_RoundRobinBalance ==
    (\A i \in DOMAIN calls : calls[i].op = "get" /\ calls[i].pref = "") =>
        LET n == Cardinality(keys)
        IN  /\ \A a, b \in keys : usage_counts[a] - usage_counts[b] <= 1
            /\ \A i, j \in DOMAIN calls :
                  i < j /\ j <= n => calls[i].label # calls[j].label
            /\ \A i \in DOMAIN calls : n > 0 => calls[i].label \in keys

\* n + 1 plain calls on a pool of n = MaxKeys keys.
C15_Witness ==
    /\ Cardinality(keys) = MaxKeys
    /\ Len(calls) = MaxKeys + 1
    /\ \A i \in DOMAIN calls : calls[i].op = "get" /\ calls[i].pref = ""

(***************************************************************************)
(* C16: selection-and-increment is protected against the concurrent units  *)
(* of one dispatch: when dispatch has returned and M of its units acquired *)
(* a credential, the usage counters sum to M, and every credential whose   *)
(* unit returned a rate-limit failure is marked.                           *)
(***************************************************************************)
RECURSIVE SumOfCounts(_)
SumOfCounts(S) ==
    IF S = {} THEN 0
    ELSE LET k == CHOOSE x \in S : TRUE
         IN  usage_counts[k] + SumOfCounts(S \ {k})

C16_NoLostUpdate ==
    disp_pc = "returned" =>
        /\ SumOfCounts(keys) = Cardinality({u \in DOMAIN unit : unit[u].key # 0})
        /\ \A u \in DOMAIN unit :
              /\ unit[u].key # 0 /\ ~unit[u].raised
              /\ is_rate_limit_failure(unit[u].ok, unit[u].output)
              => rate_limit_reset[unit[u].key] >= DEFAULT_RESET_AFTER

(***************************************************************************)
(* C17: a merge request is sent for a pull request only when, in that      *)
(* pass, its reviews held an APPROVED and no REQUEST_CHANGES and the CI    *)
(* state of its head was "success"; a pull request is merged only by such  *)
(* a request.                                                              *)
(***************************************************************************)
C17_MergeOnlyApprovedAndGreen ==
    /\ \A i \in DOMAIN merge_log :
          /\ "APPROVED" \in merge_log[i].reviews
          /\ "REQUEST_CHANGES" \notin merge_log[i].reviews
          /\ merge_log[i].status = "success"
    /\ \A p \in pr_merged : \E i \in DOMAIN merge_log : merge_log[i].pr = p

\* A finished pass that merged one pull request and held back another.
C17_Witness ==
    /\ merge_pc = "returned"
    /\ \E p, q \in PullRequests :
          /\ seen[p] = "requested" /\ p \in pr_merged
          /\ seen[q] = "gated" /\ q \notin pr_merged

(***************************************************************************)
(* C18: a pull request the pass found approved, without changes requested  *)
(* and with CI "success" gets exactly one merge request in that pass, and  *)
(* no merge request is ever sent for a pull request that is already        *)
(* merged, in this or a later cycle.                                       *)
(***************************************************************************)
C18_MergedExactlyOnce ==
    /\ \A p \in PullRequests :
          seen[p] = "requested" =>
              /\ p \in pr_merged
              /\ Cardinality({i \in DOMAIN merge_log :
                                 merge_log[i].pr = p /\ merge_log[i].pass = passes}) = 1
    /\ \A i, j \in DOMAIN merge_log :
          i < j /\ merge_log[i].pr = merge_log[j].pr =>
              merge_log[i].pass < merge_log[j].pass
    /\ \A i \in DOMAIN merge_log : ~merge_log[i].was_merged

\* The second cycle's pass is over; a pull request merged by the first was
\* not asked for again, and the second pass merged another one.
C18_Witness ==
    /\ passes = 2
    /\ merge_pc = "returned"
    /\ \E p, q \in PullRequests :
          /\ p # q
          /\ \E i \in DOMAIN merge_log : merge_log[i].pr = p /\ merge_log[i].pass = 1
          /\ p \in pr_merged
          /\ seen[q] = "requested"

(***************************************************************************)
(* C19: a tracker error while the pass handles one pull request skips only *)
(* that one: the pass never ends with an exception once its listing        *)
(* succeeded, it returns only after every listed number was handled, and   *)
(* run_cycle ends with an exception only when the listing or               *)
(* compute_ready_queue raised.                                             *)
(***************************************************************************)
C19_ErrorSkipsOnlyThatPR ==
    /\ merge_pc = "raised" => merge_list = <<>>
    /\ merge_pc = "returned" =>
          \A i \in DOMAIN merge_list : seen[merge_list[i]] # "unseen"
    /\ cycle_pc = "crashed" => merge_pc = "raised" \/ cq_status = "raised"
    /\ merge_pc = "running" => cycle_pc = "merging"

\* In the first cycle a pull request hit an error, a later one in the list
\* was still merged, and compute_ready_queue returned.
C19_Witness ==
    /\ passes = 1
    /\ merge_pc = "returned"
    /\ cq_status = "returned"
    /\ \E p, q \in PullRequests :
          p < q /\ seen[p] = "error" /\ seen[q] = "requested"

(***************************************************************************)
(* C20: retry after failure. When run_cycle is over and no label write     *)
(* failed, every dispatched issue whose worker result is not ok carries    *)
(* needs-pr and not in-progress, and is in the ready queue the next cycle  *)
(* computes from the unchanged tracker.                                    *)
(***************************************************************************)
C20_FailedIssueRetried ==
    cycle_pc = "done" /\ label_errors = 0 =>
        \A u \in DOMAIN unit :
            ~unit[u].ok =>
                LET iid == unit[u].issue_id
                    next_queue == ready_queue_of(fetch_dag({}))
                IN  /\ "needs-pr" \in issue_labels[iid]
                    /\ "in-progress" \notin issue_labels[iid]
                    /\ \E k \in DOMAIN next_queue : next_queue[k] = iid

(***************************************************************************)
(* Definitions the claim resolver's properties are stated with, read off   *)
(* the tracker state before the call and the answers the call got.         *)
(***************************************************************************)
\* The step of one `carapace queue` call.
Ran == claim_out.state = "none" /\ claim_out'.state = "returned"

ActorOpenPRs(a) == {n \in PullRequests : n \notin pr_merged /\ pr_author[n] = a}

PhaseScope(m) == {i \in Issues : issue_phase[i] = m}

ActorInProgress(m, a) ==
    {i \in PhaseScope(m) : "in-progress" \in issue_labels[i] /\ a \in issue_assignees[i]}

\* The dependency pairs the tracker reported for the issues of the phase.
PhaseEdges(m, de) ==
    {e \in Issues \X Issues :
        e[2] \in PhaseScope(m) /\ e[2] \notin de /\ e[1] \in issue_deps[e[2]]}

\* The dependency pairs the tracker reported for the open issues.
OpenEdges(de) ==
    {e \in Issues \X Issues :
        issue_state[e[2]] = "open" /\ e[2] \notin de /\ e[1] \in issue_deps[e[2]]}

PhaseScore(m, de, n) ==
    Cardinality({x \in Issues : x # n /\ <<n, x>> \in PathClosure(PhaseEdges(m, de))})

\* n is first among S: the greatest score, the lowest number among equals.
TopOf(S, m, de, n) ==
    /\ n \in S
    /\ \A j \in S \ {n} :
          \/ PhaseScore(m, de, n) > PhaseScore(m, de, j)
          \/ PhaseScore(m, de, n) = PhaseScore(m, de, j) /\ n < j

TrackerReady(de, n) ==
    /\ issue_state[n] = "open"
    /\ "needs-pr" \in issue_labels[n]
    /\ Between(PathClosure(OpenEdges(de)), n)
    /\ \A q \in Issues :
          <<q, n>> \in OpenEdges(de) =>
              issue_state[q] = "closed" \/ "tan" \in issue_labels[q]

\* The ready issues of the phase, of the actor when one is given.
ActorReady(m, a, de) ==
    {n \in PhaseScope(m) :
        TrackerReady(de, n) /\ (a = "" \/ a \in issue_assignees[n])}

Tier1Applies(claim, a) == claim /\ a # "" /\ ActorOpenPRs(a) # {}

Tier2Applies(claim, m, a) == claim /\ a # "" /\ ActorInProgress(m, a) # {}

(***************************************************************************)
(* C21: claim tier 1 has strict precedence. Whenever the claiming actor is *)
(* the author of an open pull request (and the token and the pull listing  *)
(* are there), the result is one of the actor's open pull requests, type   *)
(* pull_request, with exit code 0, whatever in-progress or ready issues    *)
(* exist; the call sends no label request, changes no label and does not   *)
(* compute the ready queue.                                                *)
(***************************************************************************)
C21_PullRequestFirst ==
    [][(/\ Ran
        /\ Tier1Applies(claim_out'.claim, claim_out'.assignee)
        /\ claim_out'.outcome \notin {"no_token", "pulls_error"})
       => /\ claim_out'.kind = "pull_request"
          /\ claim_out'.number \in ActorOpenPRs(claim_out'.assignee)
          /\ claim_out'.exit = 0
          /\ claim_out'.ok
          /\ claim_out'.writes = <<>>
          /\ ~claim_out'.consulted
          /\ issue_labels' = issue_labels]_vars

\* A call answered with the actor's pull request while an in-progress
\* issue of the actor and a ready issue of the actor were there.
C21_Witness ==
    /\ claim_out.kind = "pull_request"
    /\ claim_out.number \in ActorOpenPRs(claim_out.assignee)
    /\ ActorInProgress(claim_out.milestone, claim_out.assignee) # {}
    /\ ActorReady(claim_out.milestone, claim_out.assignee, {}) # {}

(***************************************************************************)
(* C22: claim tier 2. When the claiming actor has no open pull request and *)
(* is an assignee of an in-progress issue of the phase, the result is an   *)
(* open issue labelled in-progress and assigned to the actor, the first of *)
(* these by score and number; the ready queue is not computed and no label *)
(* request is sent. A closed issue is never the in-progress claim.         *)
(***************************************************************************)
C22_InProgressClaimIsOpen ==
    [][(/\ Ran
        /\ claim_out'.claim
        /\ ~Tier1Applies(claim_out'.claim, claim_out'.assignee)
        /\ Tier2Applies(claim_out'.claim, claim_out'.milestone, claim_out'.assignee)
        /\ claim_out'.outcome \notin {"no_token", "pulls_error", "issues_error"})
       => /\ claim_out'.kind = "issue"
          /\ claim_out'.tier = 2
          /\ issue_state[claim_out'.number] = "open"
          /\ TopOf({i \in ActorInProgress(claim_out'.milestone, claim_out'.assignee) :
                       issue_state[i] = "open"},
                   claim_out'.milestone, claim_out'.dep_errors, claim_out'.number)
          /\ claim_out'.writes = <<>>
          /\ ~claim_out'.consulted
          /\ issue_labels' = issue_labels]_vars

(***************************************************************************)
(* C23: claim tier 3. When neither tier 1 nor tier 2 applies and the ready *)
(* issues of the phase (of the actor, when one is given) are not empty,    *)
(* then with the claim action the claimed issue is the first of them by    *)
(* score and number, label requests are sent for that issue only, no other *)
(* issue's labels change, and when both requests succeed that issue has    *)
(* in-progress added and needs-pr removed; without the claim action the    *)
(* ready issues are listed first to last and no label is requested or      *)
(* changed.                                                                *)
(***************************************************************************)
C23_ClaimTopOfReady ==
    [][(/\ Ran
        /\ ~Tier1Applies(claim_out'.claim, claim_out'.assignee)
        /\ ~Tier2Applies(claim_out'.claim, claim_out'.milestone, claim_out'.assignee)
        /\ ActorReady(claim_out'.milestone, claim_out'.assignee, claim_out'.dep_errors) # {}
        /\ claim_out'.outcome \in {"ok", "add_fails", "remove_fails"})
       => LET m  == claim_out'.milestone
              de == claim_out'.dep_errors
              S  == ActorReady(m, claim_out'.assignee, de)
              n  == claim_out'.number
          IN  /\ claim_out'.exit = 0 /\ claim_out'.ok
              /\ claim_out'.claim =>
                    /\ claim_out'.kind = "issue"
                    /\ TopOf(S, m, de, n)
                    /\ \A k \in DOMAIN claim_out'.writes : claim_out'.writes[k].issue = n
                    /\ \A j \in Issues \ {n} : issue_labels'[j] = issue_labels[j]
                    /\ SymDiff(issue_labels'[n], issue_labels[n])
                          \subseteq {"in-progress", "needs-pr"}
                    /\ claim_out'.outcome = "ok" =>
                          issue_labels'[n] =
                              (issue_labels[n] \cup {"in-progress"}) \ {"needs-pr"}
              /\ ~claim_out'.claim =>
                    /\ claim_out'.kind = "ready_issues"
                    /\ {claim_out'.listing[k] : k \in DOMAIN claim_out'.listing} = S
                    /\ Len(claim_out'.listing) = Cardinality(S)
                    /\ TopOf(S, m, de, claim_out'.listing[1])
                    /\ claim_out'.writes = <<>>
                    /\ issue_labels' = issue_labels]_vars

\* A claim of the first of two ready issues of the actor: it carries
\* in-progress and no longer needs-pr, the other one still carries needs-pr.
C23_Witness ==
    /\ claim_out.claim
    /\ claim_out.tier = 3
    /\ claim_out.kind = "issue"
    /\ claim_out.outcome = "ok"
    /\ claim_out.assignee # ""
    /\ Len(claim_out.writes) = 2
    /\ "in-progress" \in issue_labels[claim_out.number]
    /\ "needs-pr" \notin issue_labels[claim_out.number]
    /\ \E j \in Issues \ {claim_out.number} :
          /\ claim_out.number < j
          /\ claim_out.assignee \in issue_assignees[j]
          /\ TrackerReady(claim_out.dep_errors, j)
          /\ issue_phase[j] = claim_out.milestone

(***************************************************************************)
(* C24: when no tier yields work (no open pull request of the claiming     *)
(* actor, no in-progress issue of the claiming actor, no ready issue of    *)
(* the phase and actor) and the tracker answered, the call returns exit    *)
(* code 0 with ok = true and the result state "empty", and sends no label  *)
(* request and changes no label.                                           *)
(***************************************************************************)
C24_EmptyIsSuccess ==
    [][(/\ Ran
        /\ ~Tier1Applies(claim_out'.claim, claim_out'.assignee)
        /\ ~Tier2Applies(claim_out'.claim, claim_out'.milestone, claim_out'.assignee)
        /\ ActorReady(claim_out'.milestone, claim_out'.assignee, claim_out'.dep_errors) = {}
        /\ claim_out'.outcome = "ok")
       => /\ claim_out'.kind = "empty"
          /\ claim_out'.exit = 0
          /\ claim_out'.ok
          /\ claim_out'.writes = <<>>
          /\ issue_labels' = issue_labels]_vars

\* A claim call of an actor that found nothing at any tier, on a tracker
\* with ready work of the phase that is not the actor's.
C24_Witness ==
    /\ claim_out.kind = "empty"
    /\ claim_out.claim
    /\ claim_out.assignee # ""
    /\ claim_out.exit = 0
    /\ ActorOpenPRs(claim_out.assignee) = {}
    /\ ActorInProgress(claim_out.milestone, claim_out.assignee) = {}
    /\ ActorReady(claim_out.milestone, "", claim_out.dep_errors) # {}
    /\ ActorReady(claim_out.milestone, claim_out.assignee, claim_out.dep_errors) = {}

(***************************************************************************)
(* Definitions the validator's properties are stated with, read off the    *)
(* issues file.                                                            *)
(***************************************************************************)
InFile == {i \in Issues : val_issues[i].present}

\* The dependency pairs the file declares, dependency first.
Declared(issues) ==
    {e \in DepTargets \X Issues : issues[e[2]].present /\ e[1] \in issues[e[2]].deps}

Sources == {n \in InFile : "tan" \in val_issues[n].labels}

Sinks == {n \in InFile : "molt" \in val_issues[n].labels}

\* One source, one sink, a needs-pr issue, assignee and milestone on every
\* issue, every dependency in the file, every issue on a path from the
\* source to the sink.
WellFormed ==
    /\ Cardinality(Sources) = 1
    /\ Cardinality(Sinks) = 1
    /\ \E n \in InFile : "needs-pr" \in val_issues[n].labels
    /\ \A n \in InFile :
          /\ val_issues[n].assignee
          /\ val_issues[n].milestone
          /\ val_issues[n].deps \subseteq InFile
    /\ LET plus == PathClosure(Declared(val_issues))
       IN  \A n \in InFile :
              /\ \E src \in Sources : src = n \/ <<src, n>> \in plus
              /\ \E snk \in Sinks : snk = n \/ <<n, snk>> \in plus

Validated == val_out.state = "returned"

HardOf(issues) == {x \in validate_issues(issues, val_config) : x.tier = "hard"}

UnlabelSink(snk) == [val_issues EXCEPT ![snk].labels = @ \ {"molt"}]

DependOnOutOfScope(i) == [val_issues EXCEPT ![i].deps = @ \cup {OUT_OF_SCOPE}]

(***************************************************************************)
(* C25: build_graph yields exactly one node per issue number that occurs   *)
(* as an issue or as a dependency, exactly the edges dependency ->         *)
(* dependent of the declared pairs, a synthetic node with empty labels for *)
(* every dependency that is no issue of the input (and no other synthetic  *)
(* node), and no edge with an endpoint that is not a node; it is defined   *)
(* for every input, a missing dependency target included.                  *)
(***************************************************************************)
C25_GraphOfDeclaredDependencies ==
    LET g == build_graph_issues(val_issues)
    IN  /\ g.nodes = InFile \cup {e[1] : e \in Declared(val_issues)}
        /\ DOMAIN g.labels = g.nodes
        /\ DOMAIN g.synthetic = g.nodes
        /\ g.edges = Declared(val_issues)
        /\ \A e \in g.edges : e[1] \in g.nodes /\ e[2] \in g.nodes
        /\ \A n \in g.nodes \ InFile : g.synthetic[n] /\ g.labels[n] = {}
        /\ \A n \in InFile : ~g.synthetic[n] /\ g.labels[n] = val_issues[n].labels

\* A validated file in which an issue depends on a number outside the file
\* and on an issue of the file, so the graph has a synthetic and a real
\* dependency node.
C25_Witness ==
    /\ Validated
    /\ \E i \in InFile :
          /\ \E d \in val_issues[i].deps : d \notin InFile
          /\ \E d \in val_issues[i].deps : d \in InFile

(***************************************************************************)
(* C26 as stated: validate_issues returns no hard message for any issue    *)
(* set with exactly one source, exactly one sink, a needs-dispatch issue,  *)
(* assignee and milestone on every issue, every dependency present and     *)
(* every issue on a dependency path from the source to the sink.           *)
(***************************************************************************)
C26_WellFormedHasNoHardMessage ==
    Validated /\ WellFormed => {x \in val_out.messages : x.tier = "hard"} = {}

(***************************************************************************)
(* C26, amended: the same, for the issue sets in which no issue depends on *)
(* the sink.                                                               *)
(***************************************************************************)
C26_WellFormedWithTerminalSink ==
    (/\ Validated
     /\ WellFormed
     /\ \A e \in Declared(val_issues) : e[1] \in Sinks => e[2] \in Sinks)
    => {x \in val_out.messages : x.tier = "hard"} = {}

\* A validated well-formed file other than the fixture, without hard
\* message, with the exit code 0.
C26_Witness ==
    /\ Validated
    /\ WellFormed
    /\ val_issues # ValidIssues
    /\ {x \in val_out.messages : x.tier = "hard"} = {}
    /\ val_out.exit = 0

C28_UnreachableSinkIsHard ==
    (Validated /\ Sinks # {})
    => LET plus == PathClosure(Declared(val_issues))
       IN  \A n \in InFile \ val_config.exempt_issues :
              (\E snk \in Sinks : snk = n \/ <<n, snk>> \in plus)
              <=> [check |-> "molt_reachability", tier |-> "hard", node |-> n,
                   other |-> 0] \notin val_out.messages

(***************************************************************************)
(* C29: the run fails (exit code 1, status failed) iff a message has tier  *)
(* hard; advisory and info messages do not fail it; the visibility level   *)
(* changes the messages shown, never the exit code or the status.          *)
(***************************************************************************)
C29_OnlyHardFails ==
    Validated
    => /\ val_out.exit = (IF \E x \in val_out.messages : x.tier = "hard" THEN 1 ELSE 0)
       /\ val_out.status = (IF \E x \in val_out.messages : x.tier = "hard"
                            THEN "failed" ELSE "passed")
       /\ val_out.visible = {x \in val_out.messages : x.tier \in LEVEL_TIERS[val_out.level]}
       /\ \A level \in Levels :
             /\ main(val_issues, val_config, level).exit = val_out.exit
             /\ main(val_issues, val_config, level).status = val_out.status

\* A run at level all that shows an info message about a missing milestone
\* and no hard one, and passes.
C29_Witness ==
    /\ Validated
    /\ val_out.level = "all"
    /\ \E x \in val_out.visible : x.tier = "info" /\ x.check = "missing_milestone"
    /\ val_out.exit = 0
    /\ val_out.status = "passed"

(***************************************************************************)
(* C30: no message about an issue (assignee, milestone, parent, leaf,      *)
(* reachability, sink dependency) is about a synthetic node or an exempt   *)
(* issue number; and adding a dependency on a number outside the file to   *)
(* an issue of a file that validates without hard message adds no hard     *)
(* message.                                                                *)
(***************************************************************************)
C30_SyntheticAndExemptNotChecked ==
    Validated
    => /\ \A x \in val_out.messages :
             x.node # 0 => x.node \in InFile \ val_config.exempt_issues
       /\ {x \in val_out.messages : x.tier = "hard"} = {}
             => \A i \in InFile : HardOf(DependOnOutOfScope(i)) = {}

\* A validated file without hard message in which an issue depends on the
\* number outside the file and an issue is exempt.
C30_Witness ==
    /\ Validated
    /\ {x \in val_out.messages : x.tier = "hard"} = {}
    /\ \E i \in InFile : OUT_OF_SCOPE \in val_issues[i].deps
    /\ \E i \in InFile \cap val_config.exempt_issues : TRUE

(***************************************************************************)
(* C33: when no credential is available as a unit of a dispatch asks for   *)
(* one, the unit ends with a not-ok result without an exception and        *)
(* without having called the worker backend, the step changes no usage     *)
(* counter and no rate_limit_reset and touches no sibling unit, and the    *)
(* dispatch still returns one result per unit, the siblings' own among     *)
(* them.                                                                   *)
(***************************************************************************)
AvailableNow == {k \in keys : rate_limit_reset[k] <= now}

\* The step in which unit u asks the pool for a key.
AsksForKey(u) ==
    /\ u \in DOMAIN unit /\ u \in DOMAIN unit'
    /\ unit[u].pc = "submitted" /\ unit'[u].pc # "submitted"

C33_MissingCapacity ==
    /\ [][\A u \in DOMAIN unit :
             AsksForKey(u) /\ AvailableNow = {} =>
                 /\ unit'[u].pc = "done"
                 /\ unit'[u].key = 0
                 /\ ~unit'[u].ok /\ ~unit'[u].raised
                 /\ unit'[u].output = NO_KEYS_OUTPUT
                 /\ usage_counts' = usage_counts
                 /\ rate_limit_reset' = rate_limit_reset
                 /\ \A v \in DOMAIN unit : v # u => unit'[v] = unit[v]
                 /\ results' = results /\ disp_pc' = disp_pc]_vars
    /\ [](\A u \in DOMAIN unit :
             unit[u].key = 0 =>
                 /\ unit[u].pc \in {"submitted", "done", "collected"}
                 /\ ~unit[u].raised)
    /\ [](disp_pc = "returned" =>
             /\ Len(results) = Len(unit)
             /\ \A u \in DOMAIN unit :
                   \E i \in DOMAIN results :
                       /\ results[i].unit = u
                       /\ results[i].ok = (unit[u].ok /\ ~unit[u].raised)
                       /\ results[i].output = unit[u].output
                       /\ unit[u].key = 0 =>
                             ~results[i].ok /\ results[i].output = NO_KEYS_OUTPUT)

\* A returned dispatch on a pool with keys in which one unit got no key,
\* because a sibling's rate-limit failure had marked the last available
\* one; the sibling's result is its own.
C33_Witness ==
    /\ disp_pc = "returned"
    /\ keys # {}
    /\ \E u, v \in DOMAIN unit :
          /\ unit[u].key = 0
          /\ unit[v].key # 0 /\ ~unit[v].raised
          /\ rate_limit_reset[unit[v].key] > now
          /\ \E i, j \in DOMAIN results :
                /\ results[i].unit = u /\ ~results[i].ok
                /\ results[i].output = NO_KEYS_OUTPUT
                /\ results[j].unit = v /\ results[j].output = unit[v].output
                /\ results[j].output # NO_KEYS_OUTPUT

(***************************************************************************)
(* C34: rate_limit_reset is only ever extended. As stated: no step makes a *)
(* credential's rate_limit_reset earlier than it was, a mark on one label  *)
(* changes only that credential's rate_limit_reset, and                    *)
(* get_next_available changes none.                                        *)
(***************************************************************************)
IsMarkCall == Len(calls') = Len(calls) + 1 /\ LastCall.op = "mark"

MarkChangesOnlyItsLabel ==
    IsMarkCall => \A k \in KeyLabels :
                      k # LastCall.label => rate_limit_reset'[k] = rate_limit_reset[k]

GetChangesNoReset == IsGetCall => rate_limit_reset' = rate_limit_reset

C34_ResetNeverEarlier ==
    [][/\ \A k \in KeyLabels : rate_limit_reset'[k] >= rate_limit_reset[k]
       /\ MarkChangesOnlyItsLabel
       /\ GetChangesNoReset]_vars

\* C34 as the code has it: a mark on a credential of the pool sets its
\* rate_limit_reset to the time of the call plus the duration, later than
\* the call and, when the credential's earlier limit reached beyond that,
\* earlier than the previous value; a mark on one label changes only that
\* credential's rate_limit_reset, a mark on an unknown label changes none,
\* and get_next_available and the passing of time change none.
C34_ResetSetFromNow ==
    [][/\ IsMarkCall /\ LastCall.label \in keys =>
             /\ rate_limit_reset'[LastCall.label] = now + LastCall.secs
             /\ rate_limit_reset'[LastCall.label] > now
             /\ (rate_limit_reset'[LastCall.label] < rate_limit_reset[LastCall.label]
                   <=> rate_limit_reset[LastCall.label] - now > LastCall.secs)
       /\ IsMarkCall /\ LastCall.label \notin keys =>
             rate_limit_reset' = rate_limit_reset
       /\ MarkChangesOnlyItsLabel
       /\ GetChangesNoReset
       /\ ~IsMarkCall => rate_limit_reset' = rate_limit_reset]_vars

\* A credential was marked for the longer duration and then, within that
\* limit, for the shorter one: its rate_limit_reset is now earlier than the
\* first mark had set it, while the other credential's was never changed.
C34_Witness ==
    \E i, j \in DOMAIN calls :
        /\ i < j
        /\ calls[i].op = "mark" /\ calls[j].op = "mark"
        /\ calls[i].label = calls[j].label /\ calls[i].label \in keys
        /\ \A m \in (j + 1)..Len(calls) : calls[m].op = "get"
        /\ \E m \in (i + 1)..(j - 1) : calls[m].op = "get" /\ calls[m].label # 0
        /\ rate_limit_reset[calls[i].label] = calls[j].at + calls[j].secs
        /\ rate_limit_reset[calls[i].label] < calls[i].at + calls[i].secs
        /\ \E k \in keys : k # calls[i].label /\ rate_limit_reset[k] = 0

(***************************************************************************)
(* C35: readiness deadlock on cycles. As stated: whenever the fetched      *)
(* graph has a directed dependency cycle among open issues, no node of     *)
(* that cycle is in the ready queue compute_ready_queue returns.           *)
(***************************************************************************)
\* The paths of the fetched graph that lead over open issues only.
OpenPaths ==
    PathClosure({e \in graph.edges :
                    ~graph.synthetic[e[1]] /\ ~graph.synthetic[e[2]]})

C35_NoCycleNodeReady ==
    cq_status = "returned" =>
        LET plus == OpenPaths
        IN  \A n \in QueueSet : <<n, n>> \notin plus

\* C35 as the code has it: a node of a cycle among open issues is in the
\* ready queue only if every node that precedes it on a cycle is an open
\* source-labelled issue, which does not block; so no node of a cycle
\* without a source-labelled node is ever returned.
C35_CycleNodeReadyOnlyBehindSource ==
    cq_status = "returned" =>
        LET plus == OpenPaths
        IN  \A n \in QueueSet :
                <<n, n>> \in plus =>
                    /\ \A p \in graph.nodes :
                          <<p, n>> \in graph.edges /\ <<n, p>> \in plus =>
                              OpenSource(p)
                    /\ \E p \in graph.nodes :
                          /\ <<p, n>> \in graph.edges /\ <<n, p>> \in plus
                          /\ "tan" \in graph.labels[p]

\* A call that returned a needs-pr issue lying on a cycle among open issues,
\* behind the source-labelled issue of the cycle.
C35_Witness ==
    /\ cq_status = "returned"
    /\ \E n \in QueueSet :
          /\ <<n, n>> \in OpenPaths
          /\ "tan" \notin issue_labels[n]

(***************************************************************************)
(* C38: every issue compute_ready_queue returns is source-labelled itself  *)
(* or has a direct dependency edge from an open source-labelled issue; a   *)
(* synthetic placeholder of the fetched graph has no labels and no         *)
(* incoming edge.                                                          *)
(***************************************************************************)
C38_ReadyIsNextToSource ==
    cq_status = "returned" =>
        /\ \A n \in QueueSet :
              \/ "tan" \in issue_labels[n]
              \/ \E s \in Issues : OpenSource(s) /\ <<s, n>> \in graph.edges
        /\ \A p \in graph.nodes :
              graph.synthetic[p] =>
                  /\ graph.labels[p] = {}
                  /\ \A q \in graph.nodes : <<q, p>> \notin graph.edges

\* A call that returned an issue with two dependencies, a closed issue that
\* is a placeholder in the graph and the open source.
C38_Witness ==
    /\ cq_status = "returned"
    /\ \E n \in QueueSet, c, s \in graph.nodes :
          /\ "tan" \notin issue_labels[n]
          /\ graph.synthetic[c] /\ issue_state[c] = "closed"
          /\ <<c, n>> \in graph.edges
          /\ OpenSource(s) /\ <<s, n>> \in graph.edges

(***************************************************************************)
(* C37: progress through a dependency chain. In an acyclic graph with an   *)
(* open source S and an open sink T, a cycle whose dependency requests all *)
(* succeed returns every open needs-pr issue X on a dependency path from S *)
(* to T all of whose dependencies other than S are closed.                 *)
(***************************************************************************)
\* The dependency paths of the tracker, over open and closed issues.
TrackerPaths == PathClosure({e \in Issues \X Issues : e[1] \in issue_deps[e[2]]})

C37_ReadyOnceDependenciesClosed ==
    cq_status = "returned" /\ graph = fetch_dag({}) =>
        LET paths == TrackerPaths
        IN  \A x \in Issues :
                /\ issue_state[x] = "open"
                /\ "needs-pr" \in issue_labels[x]
                /\ \E s, t \in Issues :
                      /\ OpenSource(s) /\ <<s, x>> \in paths
                      /\ OpenSink(t) /\ <<x, t>> \in paths
                /\ \A d \in issue_deps[x] :
                      OpenSource(d) \/ issue_state[d] = "closed"
                => x \in QueueSet

(***************************************************************************)
(* C36: validation detects dependency cycles. Whenever the dependency      *)
(* graph of the validated issue set has a directed cycle, validate_issues  *)
(* under the default config returns a hard message and the run fails.      *)
(***************************************************************************)
C36_CycleIsHard ==
    (/\ Validated
     /\ val_config = DefaultConfig
     /\ \E n \in InFile : <<n, n>> \in PathClosure(Declared(val_issues)))
    => /\ {x \in val_out.messages : x.tier = "hard"} # {}
       /\ val_out.exit = 1

\* C31: every run_cycle runs the auto-merge pass, then computes the ready
\* queue, then attempts the mark-in-progress writes of every target, then
\* dispatches, then reverts. The targets are the first
\* min(max_parallel, queue length) entries of the ready queue in queue
\* order; dispatch starts only after a mark was attempted for every target;
\* a revert happens only when every result is collected; with an empty
\* ready queue no label is written and nothing is dispatched.
InCycle == cycle_pc # "exited" /\ cycle_pc' # "exited"

MergeActs == pr_merged' # pr_merged \/ merge_log' # merge_log \/ passes' # passes

ComputeActs == cq_status = "none" /\ cq_status' # "none"

MarkActs == cycle_pc = "marking" /\ cycle_idx' = cycle_idx + 1

DispatchActs == disp_pc = "idle" /\ disp_pc' # "idle"

RevertActs == cycle_pc = "reverting" /\ cycle_idx' = cycle_idx + 1

CycleWritesLabel ==
    issue_labels' # issue_labels \/ label_errors' # label_errors \/ reverted' # reverted

NotInProgress(targets) ==
    {k \in DOMAIN targets : "in-progress" \notin issue_labels[targets[k]]}

C31_RunCycleOrder ==
    [][InCycle =>
        /\ MergeActs =>
              /\ cq_status = "none"
              /\ cycle_targets = <<>> /\ label_errors = 0 /\ reverted = {}
              /\ disp_pc = "idle"
              /\ ~CycleWritesLabel
        /\ ComputeActs =>
              /\ merge_pc = "returned" /\ merge_idx > Len(merge_list)
              /\ label_errors = 0 /\ reverted = {} /\ disp_pc = "idle"
              /\ issue_labels' = issue_labels
              /\ cq_status' = "returned" =>
                    cycle_targets' = SubSeq(ready_queue', 1,
                                            Min(max_parallel, Len(ready_queue')))
        /\ MarkActs =>
              /\ cq_status = "returned" /\ disp_pc = "idle" /\ unit = <<>>
              /\ cycle_idx \in DOMAIN cycle_targets
              /\ \A i \in Issues \ {cycle_targets[cycle_idx]} :
                    issue_labels'[i] = issue_labels[i]
        /\ DispatchActs =>
              /\ cq_status = "returned"
              /\ cycle_idx = Len(cycle_targets) + 1
              /\ Cardinality(NotInProgress(cycle_targets)) <= label_errors
              /\ issue_ids' = cycle_targets
              /\ DOMAIN unit' = DOMAIN cycle_targets
              /\ \A u \in DOMAIN unit' :
                    unit'[u].issue_id = cycle_targets[u] /\ unit'[u].pc = "submitted"
        /\ unit' # unit => disp_pc' = "running" /\ ~CycleWritesLabel
        /\ RevertActs =>
              /\ disp_pc = "returned"
              /\ \A u \in DOMAIN unit : unit[u].pc = "collected"
              /\ Len(results) = Len(cycle_targets)
        /\ CycleWritesLabel => MarkActs \/ RevertActs
        /\ (cq_status = "returned" /\ ready_queue = <<>>) =>
              /\ cycle_targets = <<>>
              /\ ~CycleWritesLabel
              /\ disp_pc' = "idle" /\ unit' = <<>> /\ results' = <<>>
      ]_vars

\* The cycle had more ready issues than max_parallel, marked its targets,
\* dispatched them and reverted one.
C31_Witness ==
    /\ cycle_pc = "done" /\ cq_status = "returned"
    /\ Len(ready_queue) > max_parallel
    /\ Len(cycle_targets) = max_parallel
    /\ disp_pc = "returned"
    /\ reverted # {}
    /\ pr_merged # {}

\* C32: a label write that fails with a tracker error is swallowed where it
\* is made. A failed write while marking leaves the cycle marking and moves
\* it to the next target, and all targets are dispatched; a failed write
\* while reverting leaves the cycle reverting and moves it to the next
\* result, so that every failed result has had its revert attempted when
\* the cycle ends; a failed write in a claim leaves the response naming the
\* top ready issue with ok and exit code 0.
WriteFails == label_errors' = label_errors + 1

ClaimWriteFails ==
    /\ claim_out.state = "none" /\ claim_out'.state = "returned"
    /\ claim_out'.outcome \in {"add_fails", "remove_fails"}

C32_LabelFailureSwallowed ==
    [][/\ (MarkActs /\ WriteFails) =>
              /\ cycle_pc' = "marking"
              /\ cycle_targets' = cycle_targets
              /\ "in-progress" \in issue_labels'[cycle_targets[cycle_idx]]
                    => "needs-pr" \in issue_labels'[cycle_targets[cycle_idx]]
       /\ DispatchActs =>
              /\ issue_ids' = cycle_targets
              /\ Len(unit') = Len(cycle_targets)
              /\ Cardinality(NotInProgress(cycle_targets)) <= label_errors
       /\ (RevertActs /\ WriteFails) =>
              /\ cycle_pc' = "reverting"
              /\ cycle_targets[cycle_idx] \in reverted'
              /\ results' = results
       /\ (cycle_pc = "reverting" /\ cycle_pc' = "done") =>
              \A k \in DOMAIN results :
                  ~results[k].ok => cycle_targets[k] \in reverted
       /\ ClaimWriteFails =>
              LET phase == phase_number(claim_out'.milestone)
                  top == Head(ready_sorted(phase, claim_out'.assignee,
                                           claim_out'.dep_errors))
              IN  /\ claim_out'.ok /\ claim_out'.exit = 0
                  /\ claim_out'.kind = "issue" /\ claim_out'.number = top
                  /\ issue_labels' =
                        IF claim_out'.outcome = "add_fails" THEN issue_labels
                        ELSE [issue_labels EXCEPT ![top] = @ \cup {"in-progress"}]
      ]_vars

\* A cycle with two targets in which a mark failed and an issue was
\* reverted, and after it a claim whose label write failed.
C32_Witness ==
    /\ claim_out.state = "returned"
    /\ claim_out.outcome \in {"add_fails", "remove_fails"}
    /\ claim_out.ok /\ claim_out.kind = "issue"
    /\ label_errors >= 1
    /\ Len(cycle_targets) = 2
    /\ reverted # {}

\* C39: a claim by a named actor writes labels only in tier 3, when the
\* actor has no open pull request and no in-progress issue in the phase of
\* the call; so on a tracker where nothing was in progress, after any
\* sequence of claim calls the actor has at most one in-progress issue in
\* each phase, and a claim that answers with an issue for an actor who has
\* an in-progress issue in the phase answers with that issue, as does a
\* claim that follows a claim of the same actor and milestone whose
\* in-progress label was written.
Called == claim_out' # claim_out \/ issue_labels' # issue_labels

AllInProgress(a) ==
    {i \in Issues : "in-progress" \in issue_labels[i] /\ a \in issue_assignees[i]}

C39_OneInProgressPerPhase ==
    [][/\ issue_labels' # issue_labels =>
              /\ claim_out'.tier = 3 /\ claim_out'.kind = "issue"
              /\ ActorOpenPRs(claim_out'.assignee) = {}
              /\ ActorInProgress(claim_out'.milestone, claim_out'.assignee) = {}
              /\ claim_out'.assignee \in issue_assignees[claim_out'.number]
              /\ issue_phase[claim_out'.number] = claim_out'.milestone
              /\ \A i \in Issues \ {claim_out'.number} :
                    issue_labels'[i] = issue_labels[i]
       /\ \A a \in Actors, m \in Phases :
              Cardinality(ActorInProgress(m, a)') <= 1
       /\ (Called /\ claim_out'.kind = "issue") =>
              /\ ActorInProgress(claim_out'.milestone, claim_out'.assignee) # {} =>
                    ActorInProgress(claim_out'.milestone, claim_out'.assignee)
                        = {claim_out'.number}
              /\ (/\ claim_out.kind = "issue" /\ claim_out.outcome # "add_fails"
                  /\ claim_out.assignee = claim_out'.assignee
                  /\ claim_out.milestone = claim_out'.milestone) =>
                    claim_out'.number = claim_out.number
      ]_vars

\* The claim as stated: at most one issue labelled in-progress for the
\* actor, whatever the milestones of the calls.
C39_OneInProgressPerActor ==
    \A a \in Actors : Cardinality(AllInProgress(a)) <= 1

\* The actor has two ready issues assigned in one phase, claimed one of
\* them and the following claim answered with it from tier 2.
C39_Witness ==
    /\ claim_out.tier = 2 /\ claim_out.kind = "issue"
    /\ AllInProgress(claim_out.assignee) = {claim_out.number}
    /\ \E i \in Issues \ {claim_out.number} :
          /\ claim_out.assignee \in issue_assignees[i]
          /\ issue_phase[i] = claim_out.milestone
          /\ "needs-pr" \in issue_labels[i]
          /\ TrackerReady({}, i)

\* C40: mutual exclusion of claims. Whatever the interleaving of the reads
\* and label writes of two claim calls by different actors, the two calls
\* do not both answer with the same issue as the issue they newly claimed
\* (tier 3), even when every label write of both calls succeeds.
NewlyClaimed(a) ==
    IF /\ claimer[a].pc = "returned"
       /\ claimer[a].out.tier = 3 /\ claimer[a].out.kind = "issue"
       /\ claimer[a].out.outcome = "ok"
    THEN {claimer[a].out.number} ELSE {}

C40_ClaimsExclusive ==
    \A a, b \in Actors : a # b => NewlyClaimed(a) \cap NewlyClaimed(b) = {}

====
